---- MODULE Spec2Model ----
(***************************************************************************)
(* Model of the pulse scoring engine (package pulse): the metric catalog   *)
(* and store (MetricsProcessor) and the score calculator (ScoreCalculator).*)
(*                                                                         *)
(* Go strings are sequences of one-character strings, so that              *)
(* strings.Split and strings.Contains are computed, not assumed.           *)
(* float64 metric values and band bounds are integers (exact in float64);  *)
(* a *float64 is <<>> for nil and <<v>> for a pointer to v.                *)
(* Category weights are rationals Num/WeightDen.                           *)
(***************************************************************************)
EXTENDS Integers, Sequences, FiniteSets

VARIABLES
    metricsConfig,   \* MetricsProcessor.metricsConfig : [Categories]
    leversConfig,    \* MetricsProcessor.leversConfig  : [Global, Weights]
    scoringMethod,   \* ScoreCalculator.scoringMethod
    metricsData,     \* MetricsProcessor.metricsData.Metrics : Seq(Metric)
    ret,             \* what the last call returned
    files,           \* the data directory: the metrics files on disk
    cmds             \* the update commands that are running

\* the data directory and the commands working on it
disk == <<files, cmds>>

vars == <<metricsConfig, leversConfig, scoringMethod, metricsData, ret, disk>>

----------------------------------------------------------------------------
(* Bounds of the model *)

MaxBands == 2      \* generated band lists have at most this many bands
MaxBound == 2      \* generated band bounds are drawn from 0..MaxBound
MaxThreshold == 2  \* generated threshold bounds are drawn from 0..MaxThreshold
MaxMetrics == 3    \* generated stores hold at most this many observations

\* A float64 weight w is the integer w * WeightDen.  The weights of the
\* generated configurations are multiples of 1/4 and the catalogs have one,
\* two or four categories (or a weight for every category), so that every
\* weight, product, sum and quotient below is exact in float64 as well.
\* 0.6 and 0.4 are not float64 values; they are used with the stores of
\* the examples only, where the float64 results equal the exact ones
\* (85 * 0.6 = 51.0, 95 * 0.4 = 38.0, 85 * 0.4 = 34.0, 95 * 0.6 = 57.0,
\* 75 * 0.6 / 0.6 = 75.0).
WeightDen == 20

----------------------------------------------------------------------------
(* Strings *)

Dot == "."
KPI == <<"K","P","I">>
KRI == <<"K","R","I">>

RECURSIVE IndexFrom(_, _, _)
IndexFrom(s, c, i) ==
    IF i > Len(s) THEN 0
    ELSE IF s[i] = c THEN i
    ELSE IndexFrom(s, c, i + 1)

\* strings.Split(s, "."): the parts between the dots; one part when no dot
RECURSIVE Split(_)
Split(s) ==
    LET i == IndexFrom(s, Dot, 1)
    IN  IF i = 0 THEN <<s>>
        ELSE <<SubSeq(s, 1, i - 1)>> \o Split(SubSeq(s, i + 1, Len(s)))

\* strings.Contains(s, substr)
Contains(s, substr) ==
    \E i \in 0..(Len(s) - Len(substr)) :
        SubSeq(s, i + 1, i + Len(substr)) = substr

----------------------------------------------------------------------------
(* types.go *)

NilPtr == <<>>
FloatPtr(v) == <<v>>

ScoringBand(min, max, score) == [Min |-> min, Max |-> max, Score |-> score]

Green == "green"
Yellow == "yellow"
Red == "red"

ThresholdRange(min, max) == [Min |-> min, Max |-> max]

----------------------------------------------------------------------------
(* Band lookup: calculateKPIScore / calculateKRIScore *)

\* a band that excludes the value equal to its maximum
inBandMutOpenMax(value, band) ==
    /\ ~(band.Min # NilPtr /\ value < band.Min[1])
    /\ ~(band.Max # NilPtr /\ value >= band.Max[1])

\* a bound that is set excludes the values on its wrong side; equality is in
inBand(value, band) ==
    /\ ~(band.Min # NilPtr /\ value < band.Min[1])
    /\ ~(band.Max # NilPtr /\ value > band.Max[1])

\* "If no band matches, return the lowest band's score or a default"
fallbackScoreMutFirst(bands) ==
    IF Len(bands) > 0 THEN bands[1].Score ELSE 0

fallbackScore(bands) ==
    IF Len(bands) > 0 THEN bands[Len(bands)].Score ELSE 0

\* a scan that lets a later matching band override an earlier one
RECURSIVE scanKPIBandsMutLast(_, _, _)
scanKPIBandsMutLast(value, bands, i) ==
    LET n == Len(bands) - i + 1
    IN  IF i > Len(bands) THEN fallbackScore(bands)
        ELSE IF inBand(value, bands[n]) THEN bands[n].Score
        ELSE scanKPIBandsMutLast(value, bands, i + 1)

\* for _, band := range kpi.ScoringBands, from band i on
RECURSIVE scanKPIBands(_, _, _)
scanKPIBands(value, bands, i) ==
    IF i > Len(bands) THEN fallbackScore(bands)
    ELSE IF inBand(value, bands[i]) THEN bands[i].Score
    ELSE scanKPIBands(value, bands, i + 1)

\* a definition without bands scored by the fallback of the scan
calculateKPIScoreMutNoDefault(value, kpi) ==
    scanKPIBands(value, kpi.ScoringBands, 1)

calculateKPIScore(value, kpi) ==
    IF Len(kpi.ScoringBands) = 0 THEN 50
    ELSE scanKPIBands(value, kpi.ScoringBands, 1)

RECURSIVE scanKRIBands(_, _, _)
scanKRIBands(value, bands, i) ==
    IF i > Len(bands) THEN fallbackScore(bands)
    ELSE IF inBand(value, bands[i]) THEN bands[i].Score
    ELSE scanKRIBands(value, bands, i + 1)

calculateKRIScore(value, kri) ==
    IF Len(kri.ScoringBands) = 0 THEN 50
    ELSE scanKRIBands(value, kri.ScoringBands, 1)

----------------------------------------------------------------------------
(* Status classification: determineStatus *)

\* a classification that looks at the Yellow range before the Green range
determineStatusMutYellowFirst(score, thresholds) ==
    IF score >= thresholds.Yellow.Min /\ score <= thresholds.Yellow.Max
        THEN Yellow
    ELSE IF score >= thresholds.Green.Min /\ score <= thresholds.Green.Max
        THEN Green
    ELSE Red

determineStatus(score, thresholds) ==
    IF score >= thresholds.Green.Min /\ score <= thresholds.Green.Max
        THEN Green
    ELSE IF score >= thresholds.Yellow.Min /\ score <= thresholds.Yellow.Max
        THEN Yellow
    ELSE Red

----------------------------------------------------------------------------
(* Errors: fmt.Errorf(format + "%s", arg); err.Error() is the text *)

Nil == [msg |-> "nil", arg |-> <<>>]
Errorf(msg, arg) == [msg |-> msg, arg |-> arg]

NoMetricsMarker ==
    <<"n","o"," ","m","e","t","r","i","c","s"," ","f","o","u","n","d",
      " ","f","o","r"," ","c","a","t","e","g","o","r","y">>

FormatText(msg) ==
    CASE msg = "category not found: " ->
        <<"c","a","t","e","g","o","r","y"," ","n","o","t"," ","f","o",
          "u","n","d",":"," ">>
      [] msg = "no metrics found for category: " ->
        NoMetricsMarker \o <<":"," ">>
      [] msg = "KPI not found: " ->
        <<"K","P","I"," ","n","o","t"," ","f","o","u","n","d",":"," ">>
      [] msg = "KRI not found: " ->
        <<"K","R","I"," ","n","o","t"," ","f","o","u","n","d",":"," ">>
      [] msg = "invalid metric reference format: " ->
        <<"i","n","v","a","l","i","d"," ","m","e","t","r","i","c"," ",
          "r","e","f","e","r","e","n","c","e"," ","f","o","r","m","a",
          "t",":"," ">>
      [] msg = "invalid metric type: " ->
        <<"i","n","v","a","l","i","d"," ","m","e","t","r","i","c"," ",
          "t","y","p","e",":"," ">>
      [] msg = "unknown metric type: " ->
        <<"u","n","k","n","o","w","n"," ","m","e","t","r","i","c"," ",
          "t","y","p","e",":"," ">>
      [] msg = "no categories found" ->
        <<"n","o"," ","c","a","t","e","g","o","r","i","e","s"," ","f",
          "o","u","n","d">>
      [] msg = "no categories with metrics found" ->
        <<"n","o"," ","c","a","t","e","g","o","r","i","e","s"," ","w",
          "i","t","h"," ","m","e","t","r","i","c","s"," ","f","o","u",
          "n","d">>
      [] msg = "metric not found: " ->
        <<"m","e","t","r","i","c"," ","n","o","t"," ","f","o","u","n","d",
          ":"," ">>
      [] msg = "failed to cast metric definition" ->
        <<"f","a","i","l","e","d"," ","t","o"," ","c","a","s","t"," ",
          "m","e","t","r","i","c"," ","d","e","f","i","n","i","t","i",
          "o","n">>

ErrorText(err) == FormatText(err.msg) \o err.arg

----------------------------------------------------------------------------
(* MetricsProcessor: the catalog and the store *)

Metric(reference, value) == [Reference |-> reference, Value |-> value]

\* a view of the store that misses its last observation
GetMetricsByCategoryMutStale(categoryID) ==
    SelectSeq(SubSeq(metricsData, 1, Len(metricsData) - 1),
              LAMBDA m : Split(m.Reference)[1] = categoryID)

\* strings.Split(metric.Reference, ".")[0] == categoryID, in store order
GetMetricsByCategory(categoryID) ==
    SelectSeq(metricsData, LAMBDA m : Split(m.Reference)[1] = categoryID)

RECURSIVE findByID(_, _, _)
findByID(items, id, i) ==
    IF i > Len(items) THEN 0
    ELSE IF items[i].ID = id THEN i
    ELSE findByID(items, id, i + 1)

categoryAt(categoryID, i) ==
    IF i = 0
        THEN [val |-> <<>>, err |-> Errorf("category not found: ", categoryID)]
        ELSE [val |-> <<metricsConfig.Categories[i]>>, err |-> Nil]

GetCategoryByID(categoryID) ==
    categoryAt(categoryID, findByID(metricsConfig.Categories, categoryID, 1))

GetAllCategories == metricsConfig.Categories

metricTypeOfParts(reference, parts) ==
    IF Len(parts) # 3
        THEN [val |-> <<>>,
              err |-> Errorf("invalid metric reference format: ", reference)]
    ELSE IF parts[2] # KPI /\ parts[2] # KRI
        THEN [val |-> <<>>, err |-> Errorf("invalid metric type: ", parts[2])]
    ELSE [val |-> parts[2], err |-> Nil]

GetMetricType(reference) == metricTypeOfParts(reference, Split(reference))

\* the definition is returned with its dynamic type (KPI or KRI)
definitionAt(defs, i, type, notFound, metricID) ==
    IF i = 0
        THEN [val |-> <<>>, err |-> Errorf(notFound, metricID)]
        ELSE [val |-> <<[type |-> type, def |-> defs[i]]>>, err |-> Nil]

\* a lookup that tests the type segment before the category
definitionInMutTypeFirst(category, metricType, metricID) ==
    IF metricType # KPI /\ metricType # KRI
        THEN [val |-> <<>>, err |-> Errorf("invalid metric type: ", metricType)]
    ELSE IF category.err # Nil THEN [val |-> <<>>, err |-> category.err]
    ELSE IF metricType = KPI
        THEN definitionAt(category.val[1].KPIs,
                          findByID(category.val[1].KPIs, metricID, 1),
                          "KPI", "KPI not found: ", metricID)
    ELSE definitionAt(category.val[1].KRIs,
                      findByID(category.val[1].KRIs, metricID, 1),
                      "KRI", "KRI not found: ", metricID)

definitionIn(category, metricType, metricID) ==
    IF category.err # Nil THEN [val |-> <<>>, err |-> category.err]
    ELSE IF metricType = KPI
        THEN definitionAt(category.val[1].KPIs,
                          findByID(category.val[1].KPIs, metricID, 1),
                          "KPI", "KPI not found: ", metricID)
    ELSE IF metricType = KRI
        THEN definitionAt(category.val[1].KRIs,
                          findByID(category.val[1].KRIs, metricID, 1),
                          "KRI", "KRI not found: ", metricID)
    ELSE [val |-> <<>>, err |-> Errorf("invalid metric type: ", metricType)]

definitionOfParts(reference, parts) ==
    IF Len(parts) # 3
        THEN [val |-> <<>>,
              err |-> Errorf("invalid metric reference format: ", reference)]
        ELSE definitionIn(GetCategoryByID(parts[1]), parts[2], parts[3])

GetMetricDefinition(reference) ==
    definitionOfParts(reference, Split(reference))

----------------------------------------------------------------------------
(* ScoreCalculator *)

MedianScoring == "median"
AverageScoring == "average"

\* Go's integer division and int(float64) truncate toward zero
TruncDiv(a, b) == IF a >= 0 THEN a \div b ELSE 0 - ((0 - a) \div b)

RECURSIVE Sum(_)
Sum(values) ==
    IF Len(values) = 0 THEN 0 ELSE values[1] + Sum(Tail(values))

RECURSIVE SumProd(_, _)
SumProd(values, weights) ==
    IF Len(values) = 0 THEN 0
    ELSE values[1] * weights[1] + SumProd(Tail(values), Tail(weights))

\* a metric status classified against the overall global thresholds
metricScoreMutOverall(reference, score, thresholds) ==
    [val |-> <<[Reference |-> reference,
                Score     |-> score,
                Status    |-> determineStatus(score,
                                  leversConfig.Global.Thresholds)]>>,
     err |-> Nil]

metricScore(reference, score, thresholds) ==
    [val |-> <<[Reference |-> reference,
                Score     |-> score,
                Status    |-> determineStatus(score, thresholds)]>>,
     err |-> Nil]

castError(type) ==
    [val |-> <<>>,
     err |-> Errorf("failed to cast metric definition", <<" ","t","o"," ">> \o type)]

metricScoreOf(metric, metricDef, metricType) ==
    IF metricDef.err # Nil THEN [val |-> <<>>, err |-> metricDef.err]
    ELSE IF metricType.err # Nil THEN [val |-> <<>>, err |-> metricType.err]
    ELSE IF metricType.val = KPI
        THEN IF metricDef.val[1].type # "KPI" THEN castError(KPI)
             ELSE metricScore(metric.Reference,
                              calculateKPIScore(metric.Value,
                                                metricDef.val[1].def),
                              leversConfig.Global.KPIThresholds)
    ELSE IF metricType.val = KRI
        THEN IF metricDef.val[1].type # "KRI" THEN castError(KRI)
             ELSE metricScore(metric.Reference,
                              calculateKRIScore(metric.Value,
                                                metricDef.val[1].def),
                              leversConfig.Global.KRIThresholds)
    ELSE [val |-> <<>>,
          err |-> Errorf("unknown metric type: ", metricType.val)]

CalculateMetricScore(metric) ==
    metricScoreOf(metric, GetMetricDefinition(metric.Reference),
                  GetMetricType(metric.Reference))

\* an average that rounds half up instead of truncating
calculateAverageMutRound(values) ==
    IF Len(values) = 0 THEN 0
    ELSE (2 * Sum(values) + Len(values)) \div (2 * Len(values))

calculateAverage(values) ==
    IF Len(values) = 0 THEN 0
    ELSE TruncDiv(Sum(values), Len(values))

\* sort.Ints: ascending
RECURSIVE insertInt(_, _)
insertInt(sorted, v) ==
    IF Len(sorted) = 0 THEN <<v>>
    ELSE IF v < sorted[1] THEN <<v>> \o sorted
    ELSE <<sorted[1]>> \o insertInt(Tail(sorted), v)

RECURSIVE sortInts(_)
sortInts(values) ==
    IF Len(values) = 0 THEN <<>>
    ELSE insertInt(sortInts(Tail(values)), values[1])

\* a median that takes the middle of the slice as it is handed in
calculateMedianMutUnsorted(values) ==
    IF Len(values) = 0 THEN 0
    ELSE LET middle == Len(values) \div 2
         IN  IF Len(values) % 2 = 0
                THEN TruncDiv(values[middle] + values[middle + 1], 2)
                ELSE values[middle + 1]

\* middle is the 0-based index len/2; sequences are 1-based
calculateMedian(values) ==
    IF Len(values) = 0 THEN 0
    ELSE LET valuesCopy == sortInts(values)
             middle == Len(valuesCopy) \div 2
         IN  IF Len(valuesCopy) % 2 = 0
                THEN TruncDiv(valuesCopy[middle] + valuesCopy[middle + 1], 2)
                ELSE valuesCopy[middle + 1]

\* the loop over categoryMetrics from index i on; stops at the first error
RECURSIVE scoreMetrics(_, _, _)
RECURSIVE scoreMetricsStep(_, _, _, _, _)
scoreMetricsStep(categoryMetrics, i, acc, ms, metricType) ==
    IF ms.err # Nil THEN [acc EXCEPT !.err = ms.err]
    ELSE IF metricType.err # Nil THEN [acc EXCEPT !.err = metricType.err]
    ELSE scoreMetrics(categoryMetrics, i + 1,
           [metricScores |-> Append(acc.metricScores, ms.val[1]),
            scores       |-> Append(acc.scores, ms.val[1].Score),
            kpiScores    |-> IF metricType.val = KPI
                                THEN Append(acc.kpiScores, ms.val[1].Score)
                                ELSE acc.kpiScores,
            kriScores    |-> IF metricType.val = KRI
                                THEN Append(acc.kriScores, ms.val[1].Score)
                                ELSE acc.kriScores,
            err          |-> Nil])

scoreMetrics(categoryMetrics, i, acc) ==
    IF i > Len(categoryMetrics) THEN acc
    ELSE scoreMetricsStep(categoryMetrics, i, acc,
                          CalculateMetricScore(categoryMetrics[i]),
                          GetMetricType(categoryMetrics[i].Reference))

aggregate(values) ==
    IF scoringMethod = MedianScoring
        THEN calculateMedian(values)
        ELSE calculateAverage(values)

\* a sub-score is computed only from a non-empty list
subScore(values) == IF Len(values) > 0 THEN aggregate(values) ELSE 0

\* a lookup that ignores the category-specific entry
thresholdsForMutGlobal(overrides, categoryID, global) == global

thresholdsFor(overrides, categoryID, global) ==
    IF categoryID \in DOMAIN overrides THEN overrides[categoryID] ELSE global

\* a sub-status that is always the classification of the sub-score
subStatusMutClassify(values, score, thresholds) ==
    determineStatus(score, thresholds)

\* the status of a sub-score: Yellow when there is no metric of that type
subStatus(values, score, thresholds) ==
    IF Len(values) > 0 THEN determineStatus(score, thresholds) ELSE Yellow

categoryScoreRecord(categoryID, name, acc, categoryScore, kpiScore, kriScore) ==
    [val |->
       <<[ID        |-> categoryID,
          Name      |-> name,
          Score     |-> categoryScore,
          KPIScore  |-> kpiScore,
          KRIScore  |-> kriScore,
          Status    |-> determineStatus(categoryScore,
                           thresholdsFor(
                               leversConfig.Weights.CategoryThresholds,
                               categoryID, leversConfig.Global.Thresholds)),
          KPIStatus |-> subStatus(acc.kpiScores, kpiScore,
                           thresholdsFor(
                               leversConfig.Weights.CategoryKPIThresholds,
                               categoryID, leversConfig.Global.KPIThresholds)),
          KRIStatus |-> subStatus(acc.kriScores, kriScore,
                           thresholdsFor(
                               leversConfig.Weights.CategoryKRIThresholds,
                               categoryID, leversConfig.Global.KRIThresholds)),
          Metrics   |-> acc.metricScores]>>,
     err |-> Nil]

categoryScoreFrom(categoryID, name, acc) ==
    IF acc.err # Nil THEN [val |-> <<>>, err |-> acc.err]
    ELSE categoryScoreRecord(categoryID, name, acc, aggregate(acc.scores),
                             subScore(acc.kpiScores), subScore(acc.kriScores))

\* a lookup order in which the store is consulted before the catalog
categoryScoreOfMutStoreFirst(categoryID, category, categoryMetrics) ==
    IF Len(categoryMetrics) = 0
        THEN [val |-> <<>>,
              err |-> Errorf("no metrics found for category: ", categoryID)]
    ELSE IF category.err # Nil THEN [val |-> <<>>, err |-> category.err]
    ELSE categoryScoreFrom(categoryID, category.val[1].Name,
            scoreMetrics(categoryMetrics, 1,
               [metricScores |-> <<>>, scores |-> <<>>, kpiScores |-> <<>>,
                kriScores |-> <<>>, err |-> Nil]))

categoryScoreOf(categoryID, category, categoryMetrics) ==
    IF category.err # Nil THEN [val |-> <<>>, err |-> category.err]
    ELSE IF Len(categoryMetrics) = 0
        THEN [val |-> <<>>,
              err |-> Errorf("no metrics found for category: ", categoryID)]
    ELSE categoryScoreFrom(categoryID, category.val[1].Name,
            scoreMetrics(categoryMetrics, 1,
               [metricScores |-> <<>>, scores |-> <<>>, kpiScores |-> <<>>,
                kriScores |-> <<>>, err |-> Nil]))

CalculateCategoryScore(categoryID) ==
    categoryScoreOf(categoryID, GetCategoryByID(categoryID),
                    GetMetricsByCategory(categoryID))

\* a weighted sum that is not divided by the total weight
calculateWeightedAverageMutNoNorm(values, weights) ==
    IF Len(values) = 0 \/ Len(values) # Len(weights) THEN 0
    ELSE TruncDiv(SumProd(values, weights), WeightDen)

\* int(weightedSum / totalWeight); the common denominator cancels
calculateWeightedAverage(values, weights) ==
    IF Len(values) = 0 \/ Len(values) # Len(weights) THEN 0
    ELSE LET weightedSum == SumProd(values, weights)
             totalWeight == Sum(weights)
         IN  IF totalWeight <= 0 THEN calculateAverage(values)
             ELSE TruncDiv(weightedSum, totalWeight)

\* sort.Slice by value, as pairs <<value, weight>>
RECURSIVE insertPair(_, _)
insertPair(sorted, pr) ==
    IF Len(sorted) = 0 THEN <<pr>>
    ELSE IF pr[1] < sorted[1][1] THEN <<pr>> \o sorted
    ELSE <<sorted[1]>> \o insertPair(Tail(sorted), pr)

RECURSIVE sortPairs(_)
sortPairs(pairs) ==
    IF Len(pairs) = 0 THEN <<>>
    ELSE insertPair(sortPairs(Tail(pairs)), pairs[1])

\* the loop of calculateWeightedMedian from pair i on; 2 * cumulative is
\* compared with the total so that the halving stays in the integers
RECURSIVE weightedMedianScan(_, _, _, _)
weightedMedianScan(pairs, totalWeight, i, cumulativeWeight) ==
    IF i > Len(pairs) THEN pairs[Len(pairs)][1]
    ELSE LET cw == cumulativeWeight + pairs[i][2]
         IN  IF 2 * cw > totalWeight THEN pairs[i][1]
             ELSE IF 2 * cw = totalWeight /\ i < Len(pairs)
                THEN TruncDiv(pairs[i][1] + pairs[i + 1][1], 2)
             ELSE weightedMedianScan(pairs, totalWeight, i + 1, cw)

calculateWeightedMedian(values, weights) ==
    IF Len(values) = 0 \/ Len(values) # Len(weights) THEN 0
    ELSE LET pairs == sortPairs([i \in 1..Len(values) |->
                                    <<values[i], weights[i]>>])
             totalWeight == Sum(weights)
         IN  IF totalWeight <= 0 THEN calculateMedian(values)
             ELSE weightedMedianScan(pairs, totalWeight, 1, 0)

\* weight = 1.0 / float64(len(categories))
defaultWeight(categories) == WeightDen \div Len(categories)

\* an overall score that follows the scoring method: weighted median under
\* MedianScoring, weighted average under AverageScoring
overallAggregateMutByMethod(scores, weights) ==
    IF scoringMethod = MedianScoring
        THEN calculateWeightedMedian(scores, weights)
        ELSE calculateWeightedAverage(scores, weights)

\* overallScore = int(sum of float64(scores[i]) * weights[i])
overallAggregate(scores, weights) ==
    TruncDiv(SumProd(scores, weights), WeightDen)

\* a loop that skips no category: an empty category aborts the computation
skipCategoryMutNever(err) == FALSE

\* strings.Contains(err.Error(), "no metrics found for category")
skipCategory(err) == Contains(ErrorText(err), NoMetricsMarker)

weightOf(categoryID, categories) ==
    IF categoryID \in DOMAIN leversConfig.Weights.Categories
        THEN leversConfig.Weights.Categories[categoryID]
        ELSE defaultWeight(categories)

\* if score > 0 { append(scores, score); append(weights, weight) }
appendIfPositive(list, score, item) ==
    IF score > 0 THEN Append(list, item) ELSE list

\* the loop over categories from index i on
RECURSIVE scoreCategories(_, _, _)
RECURSIVE scoreCategoriesStep(_, _, _, _, _)
scoreCategoriesStep(categories, i, acc, categoryScore, weight) ==
    IF categoryScore.err # Nil
        THEN IF skipCategory(categoryScore.err)
                THEN scoreCategories(categories, i + 1, acc)
                ELSE [acc EXCEPT !.err = categoryScore.err]
    ELSE scoreCategories(categories, i + 1,
           [categoryScores |-> Append(acc.categoryScores, categoryScore.val[1]),
            scores     |-> Append(acc.scores, categoryScore.val[1].Score),
            weights    |-> Append(acc.weights, weight),
            kpiScores  |-> appendIfPositive(acc.kpiScores,
                               categoryScore.val[1].KPIScore,
                               categoryScore.val[1].KPIScore),
            kpiWeights |-> appendIfPositive(acc.kpiWeights,
                               categoryScore.val[1].KPIScore, weight),
            kriScores  |-> appendIfPositive(acc.kriScores,
                               categoryScore.val[1].KRIScore,
                               categoryScore.val[1].KRIScore),
            kriWeights |-> appendIfPositive(acc.kriWeights,
                               categoryScore.val[1].KRIScore, weight),
            err        |-> Nil])

scoreCategories(categories, i, acc) ==
    IF i > Len(categories) THEN acc
    ELSE scoreCategoriesStep(categories, i, acc,
                             CalculateCategoryScore(categories[i].ID),
                             weightOf(categories[i].ID, categories))

\* a sub-score of the overall score: a weighted average, whatever the method
overallSubScore(scores, weights) ==
    IF Len(scores) > 0 THEN calculateWeightedAverage(scores, weights) ELSE 0

overallScoreRecord(acc, overallScore, kpiScore, kriScore) ==
    [val |->
       <<[Score      |-> overallScore,
          KPIScore   |-> kpiScore,
          KRIScore   |-> kriScore,
          Status     |-> determineStatus(overallScore,
                                         leversConfig.Global.Thresholds),
          KPIStatus  |-> subStatus(acc.kpiScores, kpiScore,
                                   leversConfig.Global.KPIThresholds),
          KRIStatus  |-> subStatus(acc.kriScores, kriScore,
                                   leversConfig.Global.KRIThresholds),
          Categories |-> acc.categoryScores]>>,
     err |-> Nil]

\* an aggregation without the test for an empty list of category scores
overallScoreFromMutNoCheck(acc) ==
    IF acc.err # Nil THEN [val |-> <<>>, err |-> acc.err]
    ELSE overallScoreRecord(acc,
            overallAggregate(acc.scores, acc.weights),
            overallSubScore(acc.kpiScores, acc.kpiWeights),
            overallSubScore(acc.kriScores, acc.kriWeights))

overallScoreFrom(acc) ==
    IF acc.err # Nil THEN [val |-> <<>>, err |-> acc.err]
    ELSE IF Len(acc.categoryScores) = 0
        THEN [val |-> <<>>,
              err |-> Errorf("no categories with metrics found", <<>>)]
    ELSE overallScoreRecord(acc,
            overallAggregate(acc.scores, acc.weights),
            overallSubScore(acc.kpiScores, acc.kpiWeights),
            overallSubScore(acc.kriScores, acc.kriWeights))

overallScoreOf(categories) ==
    IF Len(categories) = 0
        THEN [val |-> <<>>, err |-> Errorf("no categories found", <<>>)]
    ELSE overallScoreFrom(
            scoreCategories(categories, 1,
               [categoryScores |-> <<>>, scores |-> <<>>, weights |-> <<>>,
                kpiScores |-> <<>>, kpiWeights |-> <<>>, kriScores |-> <<>>,
                kriWeights |-> <<>>, err |-> Nil]))

CalculateOverallScore == overallScoreOf(GetAllCategories)

----------------------------------------------------------------------------
(* Inputs *)

\* the bands of test_kpi and test_kri in TestScoreCalculator
TestKPIBands ==
    << ScoringBand(NilPtr, FloatPtr(5), 95),
       ScoringBand(FloatPtr(5), FloatPtr(10), 85),
       ScoringBand(FloatPtr(10), FloatPtr(15), 75),
       ScoringBand(FloatPtr(15), FloatPtr(20), 65),
       ScoringBand(FloatPtr(20), NilPtr, 30) >>

TestKRIBands ==
    << ScoringBand(NilPtr, FloatPtr(0), 95),
       ScoringBand(FloatPtr(0), FloatPtr(2), 85),
       ScoringBand(FloatPtr(2), FloatPtr(5), 75),
       ScoringBand(FloatPtr(5), FloatPtr(10), 65),
       ScoringBand(FloatPtr(10), NilPtr, 30) >>

\* test_kpi2: a higher value is better
TestKPI2Bands ==
    << ScoringBand(FloatPtr(95), NilPtr, 95),
       ScoringBand(FloatPtr(90), FloatPtr(95), 85),
       ScoringBand(FloatPtr(85), FloatPtr(90), 75),
       ScoringBand(FloatPtr(80), FloatPtr(85), 65),
       ScoringBand(NilPtr, FloatPtr(80), 30) >>

\* two overlapping bands: the second also contains what the first contains
OverlapBands ==
    << ScoringBand(NilPtr, FloatPtr(5), 95),
       ScoringBand(FloatPtr(0), FloatPtr(10), 85) >>

ExampleBandLists == {TestKPIBands, TestKRIBands, OverlapBands}
ExampleValues == {3, 4, 12, 15, 25}

BoundInputs == {NilPtr} \cup {FloatPtr(v) : v \in 0..MaxBound}
GenScores == {30, 95}

GenBands ==
    {ScoringBand(mn, mx, sc) : mn \in BoundInputs, mx \in BoundInputs,
                               sc \in GenScores}

RECURSIVE SeqsUpTo(_, _)
SeqsUpTo(S, n) ==
    IF n = 0 THEN {<<>>}
    ELSE LET shorter == SeqsUpTo(S, n - 1)
         IN  shorter \cup {Append(s, x) : s \in shorter, x \in S}

BandListInputs == SeqsUpTo(GenBands, MaxBands) \cup ExampleBandLists

ValueInputs(bands) ==
    (0..(MaxBound + 1)) \cup
    (IF bands \in ExampleBandLists THEN ExampleValues ELSE {})

----------------------------------------------------------------------------
(* Configuration of TestScoreCalculator *)

TestGlobal ==
    [ Thresholds    |-> [Green  |-> ThresholdRange(80, 100),
                         Yellow |-> ThresholdRange(60, 79),
                         Red    |-> ThresholdRange(0, 59)],
      KPIThresholds |-> [Green  |-> ThresholdRange(85, 100),
                         Yellow |-> ThresholdRange(65, 84),
                         Red    |-> ThresholdRange(0, 64)],
      KRIThresholds |-> [Green  |-> ThresholdRange(75, 100),
                         Yellow |-> ThresholdRange(55, 74),
                         Red    |-> ThresholdRange(0, 54)] ]

\* maps are functions whose DOMAIN is the set of keys present
EmptyMap == [k \in {} |-> 0]

NoWeights ==
    [ Categories            |-> EmptyMap,
      CategoryThresholds    |-> EmptyMap,
      CategoryKPIThresholds |-> EmptyMap,
      CategoryKRIThresholds |-> EmptyMap ]

NoReturn == [op |-> "none"]

\* no data directory, no legacy file and no command: a processor in memory
NoFiles == [dir |-> FALSE, metrics |-> EmptyMap, legacy |-> <<>>]
NoCommands == <<>>

----------------------------------------------------------------------------
(* Specification of the band lookup: one metric definition, any value *)

InitBands ==
    /\ \E bands \in BandListInputs :
          metricsConfig =
             [Categories |->
                << [ID   |-> <<"a">>,
                    KPIs |-> <<[ID |-> <<"x">>, ScoringBands |-> bands]>>,
                    KRIs |-> <<[ID |-> <<"y">>, ScoringBands |-> bands]>>] >>]
    /\ leversConfig = [Global |-> TestGlobal, Weights |-> NoWeights]
    /\ scoringMethod = "median"
    /\ metricsData = <<>>
    /\ ret = NoReturn
    /\ files = NoFiles
    /\ cmds = NoCommands

CallCalculateKPIScore ==
    \E value \in ValueInputs(metricsConfig.Categories[1].KPIs[1].ScoringBands) :
        LET kpi == metricsConfig.Categories[1].KPIs[1]
        IN  /\ ret' = [op    |-> "calculateKPIScore",
                       value |-> value,
                       bands |-> kpi.ScoringBands,
                       score |-> calculateKPIScore(value, kpi)]
            /\ UNCHANGED <<disk, metricsConfig, leversConfig, scoringMethod,
                           metricsData>>

CallCalculateKRIScore ==
    \E value \in ValueInputs(metricsConfig.Categories[1].KRIs[1].ScoringBands) :
        LET kri == metricsConfig.Categories[1].KRIs[1]
        IN  /\ ret' = [op    |-> "calculateKRIScore",
                       value |-> value,
                       bands |-> kri.ScoringBands,
                       score |-> calculateKRIScore(value, kri)]
            /\ UNCHANGED <<disk, metricsConfig, leversConfig, scoringMethod,
                           metricsData>>

NextBands == CallCalculateKPIScore \/ CallCalculateKRIScore

SpecBands == InitBands /\ [][NextBands]_vars

----------------------------------------------------------------------------
(* Claims about the band lookup *)

IsBandCall == ret.op \in {"calculateKPIScore", "calculateKRIScore"}

\* the range of band b, read off the declaration: inclusive where declared
Covers(b, value) ==
    /\ (b.Min = NilPtr \/ b.Min[1] <= value)
    /\ (b.Max = NilPtr \/ value <= b.Max[1])

Matching(bands, value) == {i \in 1..Len(bands) : Covers(bands[i], value)}

FirstMatching(bands, value) ==
    CHOOSE i \in Matching(bands, value) :
        \A j \in Matching(bands, value) : i <= j

\* C1: with at least one band, the score is that of the first band in
\* declared order whose inclusive range contains the value; overlapping
\* bands [{max 5, 95}, {min 0, max 10, 85}] give 95 for the value 3.
C1_FirstMatchWins ==
    (IsBandCall /\ Len(ret.bands) > 0 /\ Matching(ret.bands, ret.value) # {})
        => /\ ret.score = ret.bands[FirstMatching(ret.bands, ret.value)].Score
           /\ (ret.bands = OverlapBands /\ ret.value = 3) => ret.score = 95

\* a later band also contains the value and carries another score
C1_Witness ==
    /\ IsBandCall
    /\ Cardinality(Matching(ret.bands, ret.value)) > 1
    /\ \E j \in Matching(ret.bands, ret.value) :
          ret.bands[j].Score # ret.score

\* C2: with at least one band and a value that no band contains, the score
\* is the score of the last declared band.
C2_FallbackTail ==
    (IsBandCall /\ Len(ret.bands) > 0 /\ Matching(ret.bands, ret.value) = {})
        => ret.score = ret.bands[Len(ret.bands)].Score

\* no band contains the value, and the last band is not the first
C2_Witness ==
    /\ IsBandCall
    /\ Len(ret.bands) > 1
    /\ Matching(ret.bands, ret.value) = {}
    /\ ret.bands[1].Score # ret.bands[Len(ret.bands)].Score

----------------------------------------------------------------------------
(* Specification of the status classification: any thresholds, any score *)

GenRanges ==
    {ThresholdRange(mn, mx) : mn \in 0..MaxThreshold, mx \in 0..MaxThreshold}

GenThresholds == [Green : GenRanges, Yellow : GenRanges, Red : GenRanges]

\* threshold sets that reach from 0 to 100, with Red [0,r], Yellow [y,z] and
\* Green [g,100] around the default limits 59, 60, 79 and 80
FullSpanInputs ==
    { [Green  |-> ThresholdRange(g, 100),
       Yellow |-> ThresholdRange(y, z),
       Red    |-> ThresholdRange(0, r)] :
         g \in {70, 80}, y \in {50, 60}, z \in {60, 70, 79}, r \in {50, 59} }

ThresholdsInputs ==
    GenThresholds \cup {TestGlobal.Thresholds} \cup FullSpanInputs

ScoreInputs(thresholds) ==
    ((0 - 1)..(MaxThreshold + 1)) \cup
    (IF thresholds = TestGlobal.Thresholds
        THEN {50, 59, 60, 70, 79, 80, 85, 100, 101} ELSE {}) \cup
    (IF thresholds \in FullSpanInputs THEN 0..100 ELSE {})

\* the three rules of validate-thresholds on one threshold set: min <= max
\* in each range, no overlap, Red from 0 and Green up to 100
validThresholds(thresholds) ==
    /\ ~(thresholds.Green.Min > thresholds.Green.Max)
    /\ ~(thresholds.Yellow.Min > thresholds.Yellow.Max)
    /\ ~(thresholds.Red.Min > thresholds.Red.Max)
    /\ ~(thresholds.Yellow.Max >= thresholds.Green.Min)
    /\ ~(thresholds.Red.Max >= thresholds.Yellow.Min)
    /\ ~(thresholds.Red.Min > 0)
    /\ ~(thresholds.Green.Max < 100)

InitStatus ==
    /\ metricsConfig = [Categories |-> <<>>]
    /\ \E thresholds \in ThresholdsInputs :
          leversConfig =
             [Global  |-> [TestGlobal EXCEPT !.Thresholds = thresholds],
              Weights |-> NoWeights]
    /\ scoringMethod = "median"
    /\ metricsData = <<>>
    /\ ret = NoReturn
    /\ files = NoFiles
    /\ cmds = NoCommands

CallDetermineStatus ==
    \E score \in ScoreInputs(leversConfig.Global.Thresholds) :
        /\ ret' = [op         |-> "determineStatus",
                   score      |-> score,
                   thresholds |-> leversConfig.Global.Thresholds,
                   status     |-> determineStatus(score,
                                       leversConfig.Global.Thresholds)]
        /\ UNCHANGED <<disk, metricsConfig, leversConfig, scoringMethod,
                       metricsData>>

\* validate-thresholds: the global thresholds, then those of each category
CallValidateThresholds ==
    /\ ret' = [op         |-> "validate-thresholds",
               thresholds |-> leversConfig.Global.Thresholds,
               valid      |->
                  /\ validThresholds(leversConfig.Global.Thresholds)
                  /\ \A c \in DOMAIN leversConfig.Weights.CategoryThresholds :
                        validThresholds(
                            leversConfig.Weights.CategoryThresholds[c])]
    /\ UNCHANGED <<disk, metricsConfig, leversConfig, scoringMethod,
                   metricsData>>

NextStatus == CallDetermineStatus \/ CallValidateThresholds

SpecStatus == InitStatus /\ [][NextStatus]_vars

----------------------------------------------------------------------------
(* Claims about the status classification *)

IsStatusCall == ret.op = "determineStatus"

Within(score, range) == score \in range.Min..range.Max

\* C3: Green if the score lies in the Green range, otherwise Yellow if it
\* lies in the Yellow range, otherwise Red whatever the Red range is; with
\* Green=[80,100], Yellow=[60,79], Red=[0,59] the scores 80, 79, 60, 59 are
\* Green, Yellow, Yellow, Red.
C3_StatusClassification ==
    IsStatusCall =>
        LET t == ret.thresholds
            inG == Within(ret.score, t.Green)
            inY == Within(ret.score, t.Yellow)
        IN  /\ inG => ret.status = Green
            /\ (~inG /\ inY) => ret.status = Yellow
            /\ (~inG /\ ~inY) => ret.status = Red
            /\ t = TestGlobal.Thresholds =>
                  /\ ret.score = 80 => ret.status = Green
                  /\ ret.score \in {79, 60} => ret.status = Yellow
                  /\ ret.score = 59 => ret.status = Red

\* Red is returned for a score that lies outside the Red range too
C3_Witness ==
    /\ IsStatusCall
    /\ ret.status = Red
    /\ ~Within(ret.score, ret.thresholds.Red)
    /\ ret.thresholds # TestGlobal.Thresholds

\* C27: a threshold set that validate-thresholds accepts partitions the
\* scores 0..100: each score lies in exactly one of the Green, Yellow and
\* Red ranges, and determineStatus returns the colour of that range.
C27_ValidatedPartition ==
    (IsStatusCall /\ validThresholds(ret.thresholds)
                  /\ ret.score \in 0..100) =>
        LET t   == ret.thresholds
            inG == Within(ret.score, t.Green)
            inY == Within(ret.score, t.Yellow)
            inR == Within(ret.score, t.Red)
        IN  /\ inG \/ inY \/ inR
            /\ ~(inG /\ inY) /\ ~(inG /\ inR) /\ ~(inY /\ inR)
            /\ ret.status = Green <=> inG
            /\ ret.status = Yellow <=> inY
            /\ ret.status = Red <=> inR

----------------------------------------------------------------------------
(* Specification of the category aggregation: a catalog of two categories, *)
(* any store of up to MaxMetrics observations as loaded from the data      *)
(* files (no uniqueness or grammar is enforced on load), either method     *)

\* a KPI whose scores are not multiples of five
OddKPIBands ==
    << ScoringBand(NilPtr, FloatPtr(5), 74),
       ScoringBand(FloatPtr(5), NilPtr, 20) >>

Ref(categoryID, metricType, metricID) ==
    categoryID \o <<Dot>> \o metricType \o <<Dot>> \o metricID

CategoryCatalog ==
    [Categories |->
       << [ID   |-> <<"a">>, Name |-> "Test Category",
           KPIs |-> << [ID |-> <<"x">>, ScoringBands |-> TestKPIBands],
                       [ID |-> <<"t">>, ScoringBands |-> OddKPIBands] >>,
           KRIs |-> << [ID |-> <<"y">>, ScoringBands |-> TestKRIBands] >>],
          [ID   |-> <<"b">>, Name |-> "Test Category 2",
           KPIs |-> << [ID |-> <<"x">>, ScoringBands |-> TestKPI2Bands] >>,
           KRIs |-> <<>>] >>]

CategoryRefInputs ==
    { Ref(<<"a">>, KPI, <<"x">>), Ref(<<"a">>, KPI, <<"t">>),
      Ref(<<"a">>, KRI, <<"y">>), Ref(<<"b">>, KPI, <<"x">>) }

CategoryValueInputs == {3, 7, 17}

CategoryMetricInputs ==
    {Metric(r, v) : r \in CategoryRefInputs, v \in CategoryValueInputs}

CategoryIDInputs == {<<"a">>, <<"b">>, <<"q">>}

InitCategory ==
    /\ metricsConfig = CategoryCatalog
    /\ leversConfig = [Global |-> TestGlobal, Weights |-> NoWeights]
    /\ scoringMethod \in {MedianScoring, AverageScoring}
    /\ metricsData \in SeqsUpTo(CategoryMetricInputs, MaxMetrics)
    /\ ret = NoReturn
    /\ files = NoFiles
    /\ cmds = NoCommands

returned(op, arg, r) == [op |-> op, arg |-> arg, val |-> r.val, err |-> r.err]

\* a category score that removes the observations it has scored
CallCalculateCategoryScoreMutConsume ==
    \E categoryID \in CategoryIDInputs :
        /\ ret' = returned("CalculateCategoryScore", categoryID,
                           CalculateCategoryScore(categoryID))
        /\ metricsData' =
              SelectSeq(metricsData,
                        LAMBDA m : Split(m.Reference)[1] # categoryID)
        /\ UNCHANGED <<disk, metricsConfig, leversConfig, scoringMethod>>

CallCalculateCategoryScore ==
    \E categoryID \in CategoryIDInputs :
        /\ ret' = returned("CalculateCategoryScore", categoryID,
                           CalculateCategoryScore(categoryID))
        /\ UNCHANGED <<disk, metricsConfig, leversConfig, scoringMethod,
                       metricsData>>

NextCategory == CallCalculateCategoryScore

SpecCategory == InitCategory /\ [][NextCategory]_vars

----------------------------------------------------------------------------
(* Claims about the category aggregation *)

IsCategoryScore == ret.op = "CalculateCategoryScore" /\ ret.err = Nil

\* the scores of the returned metric scores, all or of one type
ScoresOf(metricScores) == [i \in 1..Len(metricScores) |-> metricScores[i].Score]

OfType(metricScores, metricType) ==
    SelectSeq(metricScores, LAMBDA m : Split(m.Reference)[2] = metricType)

\* the k-th smallest of values, by rank and not by sorting
KthSmallest(values, k) ==
    CHOOSE v \in {values[i] : i \in 1..Len(values)} :
        /\ Cardinality({i \in 1..Len(values) : values[i] < v}) < k
        /\ Cardinality({i \in 1..Len(values) : values[i] <= v}) >= k

MedianOf(values) ==
    LET n == Len(values)
    IN  IF n % 2 = 1 THEN KthSmallest(values, (n + 1) \div 2)
        ELSE (KthSmallest(values, n \div 2)
                 + KthSmallest(values, n \div 2 + 1)) \div 2

\* C4: under MedianScoring the category score, and each sub-score with at
\* least one metric, is the median of the metric scores: the middle one of
\* an odd count, the floor of the mean of the two middle ones of an even
\* count, whatever the order of the observations; [95,75] gives 85 and
\* [95,75,65] gives 75.
C4_MedianAggregation ==
    (IsCategoryScore /\ scoringMethod = MedianScoring) =>
        LET cs == ret.val[1]
            all == ScoresOf(cs.Metrics)
            kpi == ScoresOf(OfType(cs.Metrics, KPI))
            kri == ScoresOf(OfType(cs.Metrics, KRI))
        IN  /\ cs.Score = MedianOf(all)
            /\ Len(kpi) > 0 => cs.KPIScore = MedianOf(kpi)
            /\ Len(kri) > 0 => cs.KRIScore = MedianOf(kri)
            /\ all \in {<<95, 75>>, <<75, 95>>} => cs.Score = 85
            /\ all \in {<<95, 75, 65>>, <<65, 95, 75>>, <<75, 65, 95>>}
                  => cs.Score = 75

\* three observations whose middle one in store order is not the median
C4_Witness ==
    /\ IsCategoryScore
    /\ scoringMethod = MedianScoring
    /\ Len(ret.val[1].Metrics) = 3
    /\ ret.val[1].Metrics[2].Score # ret.val[1].Score
    /\ Len(OfType(ret.val[1].Metrics, KPI)) = 2
    /\ ret.val[1].KPIScore # ret.val[1].Metrics[1].Score

\* C5: under AverageScoring the category score, and each sub-score with at
\* least one metric, is the sum of the metric scores divided by their
\* count, truncated toward zero; [95,74] gives 84.
IsTruncatedMean(score, values) ==
    /\ Sum(values) >= 0 =>
          /\ score * Len(values) <= Sum(values)
          /\ Sum(values) < (score + 1) * Len(values)
    /\ Sum(values) < 0 =>
          /\ score * Len(values) >= Sum(values)
          /\ Sum(values) > (score - 1) * Len(values)

C5_AverageAggregation ==
    (IsCategoryScore /\ scoringMethod = AverageScoring) =>
        LET cs == ret.val[1]
            all == ScoresOf(cs.Metrics)
            kpi == ScoresOf(OfType(cs.Metrics, KPI))
            kri == ScoresOf(OfType(cs.Metrics, KRI))
        IN  /\ IsTruncatedMean(cs.Score, all)
            /\ Len(kpi) > 0 => IsTruncatedMean(cs.KPIScore, kpi)
            /\ Len(kri) > 0 => IsTruncatedMean(cs.KRIScore, kri)
            /\ all \in {<<95, 74>>, <<74, 95>>} => cs.Score = 84

\* the mean of the scores is not an integer: 95 and 74
C5_Witness ==
    /\ IsCategoryScore
    /\ scoringMethod = AverageScoring
    /\ ScoresOf(ret.val[1].Metrics) = <<95, 74>>
    /\ ret.val[1].Score = 84
    /\ ret.val[1].KPIScore = 84

----------------------------------------------------------------------------
(* Specification of the overall aggregation: a catalog and weights as      *)
(* loaded from the configuration, a store as loaded from the data files,   *)
(* either method                                                           *)

Category(id, name, kpis, kris) ==
    [ID |-> id, Name |-> name, KPIs |-> kpis, KRIs |-> kris]

CatA == Category(<<"a">>, "Test Category",
                 << [ID |-> <<"x">>, ScoringBands |-> TestKPIBands] >>,
                 << [ID |-> <<"y">>, ScoringBands |-> TestKRIBands] >>)

CatB == Category(<<"b">>, "Test Category 2",
                 << [ID |-> <<"x">>, ScoringBands |-> TestKPI2Bands] >>,
                 <<>>)

\* a KPI whose only band gives the lowest score of the 0..100 axis
ZeroBands == << ScoringBand(NilPtr, NilPtr, 0) >>

CatC == Category(<<"c">>, "Test Category 3",
                 << [ID |-> <<"x">>, ScoringBands |-> TestKPIBands],
                    [ID |-> <<"z">>, ScoringBands |-> ZeroBands] >>,
                 << [ID |-> <<"y">>, ScoringBands |-> TestKRIBands] >>)

EmptyCatalog == [Categories |-> <<>>]
TestCatalog  == [Categories |-> <<CatA, CatB>>]
ThreeCatalog == [Categories |-> <<CatA, CatB, CatC>>]

WithWeights(categories) == [NoWeights EXCEPT !.Categories = categories]

\* weights 0.6 and 0.4 of TestScoreCalculator
TestWeights ==
    WithWeights([k \in {<<"a">>, <<"b">>} |-> IF k = <<"a">> THEN 12 ELSE 8])

\* a weight for category a only: 0.75
PartialWeights == WithWeights([k \in {<<"a">>} |-> 15])

\* weights 1.0, 0.5 and 0.25: they do not sum to 1
HeavyWeights ==
    WithWeights([k \in {<<"a">>, <<"b">>, <<"c">>} |->
                    IF k = <<"a">> THEN 20 ELSE IF k = <<"b">> THEN 10 ELSE 5])

\* every configured weight is 0
ZeroWeights == WithWeights([k \in {<<"a">>, <<"b">>} |-> 0])

OverallConfigInputs ==
    { [catalog |-> EmptyCatalog, weights |-> NoWeights],
      [catalog |-> TestCatalog,  weights |-> ZeroWeights],
      [catalog |-> TestCatalog,  weights |-> NoWeights],
      [catalog |-> TestCatalog,  weights |-> PartialWeights],
      [catalog |-> ThreeCatalog, weights |-> HeavyWeights] }

\* references that cannot be scored: an id without definition, a reference
\* of two segments, and an id that reads like the no-metrics message
UndefinedRef == Ref(<<"a">>, KPI, <<"q">>)
TwoPartRef   == <<"a", Dot, "b">>
MarkerRef    == Ref(<<"b">>, KPI, NoMetricsMarker)

OverallMetricInputs ==
    {Metric(r, v) : r \in { Ref(<<"a">>, KPI, <<"x">>),
                            Ref(<<"a">>, KRI, <<"y">>),
                            Ref(<<"b">>, KPI, <<"x">>) },
                    v \in {3, 96}}
    \cup {Metric(r, 3) : r \in { Ref(<<"c">>, KPI, <<"x">>),
                                 Ref(<<"c">>, KPI, <<"z">>),
                                 UndefinedRef, TwoPartRef, MarkerRef }}

\* the store of TestScoreCalculator: category scores 85 and 85
TestStore ==
    << Metric(Ref(<<"a">>, KPI, <<"x">>), 3),
       Metric(Ref(<<"a">>, KRI, <<"y">>), 4),
       Metric(Ref(<<"b">>, KPI, <<"x">>), 92) >>

\* category scores 85 and 95
ExampleStore ==
    << Metric(Ref(<<"a">>, KPI, <<"x">>), 7),
       Metric(Ref(<<"b">>, KPI, <<"x">>), 96) >>

ExampleStores == {TestStore, ExampleStore}

InitOverall ==
    /\ \/ \E c \in OverallConfigInputs :
             /\ metricsConfig = c.catalog
             /\ leversConfig = [Global |-> TestGlobal, Weights |-> c.weights]
             /\ metricsData \in SeqsUpTo(OverallMetricInputs, MaxMetrics)
       \/ /\ metricsConfig = TestCatalog
          /\ leversConfig = [Global |-> TestGlobal, Weights |-> TestWeights]
          /\ metricsData \in ExampleStores
    /\ scoringMethod \in {MedianScoring, AverageScoring}
    /\ ret = NoReturn
    /\ files = NoFiles
    /\ cmds = NoCommands

CallCalculateOverallScore ==
    /\ ret' = returned("CalculateOverallScore", <<>>, CalculateOverallScore)
    /\ UNCHANGED <<disk, metricsConfig, leversConfig, scoringMethod,
                   metricsData>>

NextOverall == CallCalculateOverallScore

SpecOverall == InitOverall /\ [][NextOverall]_vars

----------------------------------------------------------------------------
(* Claims about the overall aggregation *)

IsOverallCall == ret.op = "CalculateOverallScore"
IsOverallScore == IsOverallCall /\ ret.err = Nil

CatalogIDs ==
    [i \in 1..Len(metricsConfig.Categories) |-> metricsConfig.Categories[i].ID]

\* an observation is recorded for the category: its first segment is the id
HasMetrics(id) ==
    \E i \in 1..Len(metricsData) : Split(metricsData[i].Reference)[1] = id

Scorable(metric) == CalculateMetricScore(metric).err = Nil

\* the weight of a participating category, as an integer over WeightDen
WeightOfCategory(id) ==
    IF id \in DOMAIN leversConfig.Weights.Categories
        THEN leversConfig.Weights.Categories[id]
        ELSE WeightDen \div Len(metricsConfig.Categories)

WeightsOf(categoryScores) ==
    [i \in 1..Len(categoryScores) |-> WeightOfCategory(categoryScores[i].ID)]

WeightedTotal(categoryScores) ==
    Sum([i \in 1..Len(categoryScores) |->
            categoryScores[i].Score * WeightOfCategory(categoryScores[i].ID)])

C7_WeightedMedian ==
    (IsOverallScore /\ scoringMethod = MedianScoring) =>
        LET cats == ret.val[1].Categories
        IN  /\ ret.val[1].Score =
                  calculateWeightedMedian(
                      [i \in 1..Len(cats) |-> cats[i].Score], WeightsOf(cats))
            /\ (leversConfig.Weights = TestWeights /\ metricsData = ExampleStore)
                  => ret.val[1].Score = 85

\* C8: when a category of the catalog has a recorded metric and every
\* observation can be scored, the call succeeds and Categories holds one
\* entry for each category with a recorded metric, in catalog order, and
\* none for a category without.
C8_EmptyCategorySkip ==
    ( /\ IsOverallCall
      /\ \E i \in 1..Len(CatalogIDs) : HasMetrics(CatalogIDs[i])
      /\ \A i \in 1..Len(metricsData) : Scorable(metricsData[i]) )
    => /\ ret.err = Nil
       /\ Len(ret.val) = 1
       /\ [i \in 1..Len(ret.val[1].Categories) |-> ret.val[1].Categories[i].ID]
             = SelectSeq(CatalogIDs, HasMetrics)

\* three categories, one of them without metrics: two entries
C8_Witness ==
    /\ IsOverallScore
    /\ \A i \in 1..Len(metricsData) : Scorable(metricsData[i])
    /\ Len(metricsConfig.Categories) = 3
    /\ Len(ret.val[1].Categories) = 2
    /\ ~HasMetrics(<<"b">>)

\* a category that has observations of which one cannot be scored
FailsToScore(id) ==
    \E i \in 1..Len(metricsData) :
        /\ Split(metricsData[i].Reference)[1] = id
        /\ ~Scorable(metricsData[i])

FirstFailing ==
    CHOOSE i \in 1..Len(CatalogIDs) :
        /\ FailsToScore(CatalogIDs[i])
        /\ \A j \in 1..(i - 1) : ~FailsToScore(CatalogIDs[j])

\* C9: when the score of a category fails for another reason than the
\* category having no metrics, the call returns that error and no score;
\* it never returns a score together with an error, nor a score that
\* leaves the failing category out.
C9_AbortOnOtherFailure ==
    IsOverallCall =>
        /\ ~(ret.val # <<>> /\ ret.err # Nil)
        /\ (\E i \in 1..Len(CatalogIDs) : FailsToScore(CatalogIDs[i]))
              => /\ ret.val = <<>>
                 /\ ret.err = CalculateCategoryScore(CatalogIDs[FirstFailing]).err

NoCategoryHasMetrics ==
    \A i \in 1..Len(CatalogIDs) : ~HasMetrics(CatalogIDs[i])

\* C10 as claimed: when no category has a recorded metric, the call fails
\* with the no-categories-with-metrics error and returns no score.
C10_NoCategoriesWithMetrics ==
    (IsOverallCall /\ NoCategoryHasMetrics)
        => /\ ret.val = <<>>
           /\ ret.err = Errorf("no categories with metrics found", <<>>)

\* C10 as amended: when no category has a recorded metric, the call returns
\* no score; it fails with the no-categories-with-metrics error when the
\* catalog has at least one category and with the no-categories-found error
\* when the catalog is empty.
C10_NoCategoriesAmended ==
    (IsOverallCall /\ NoCategoryHasMetrics)
        => /\ ret.val = <<>>
           /\ ret.err = IF Len(metricsConfig.Categories) = 0
                           THEN Errorf("no categories found", <<>>)
                           ELSE Errorf("no categories with metrics found", <<>>)

\* a catalog with categories and a store with observations, none of which
\* belongs to a category of the catalog
C10_Witness ==
    /\ IsOverallCall
    /\ NoCategoryHasMetrics
    /\ Len(metricsConfig.Categories) > 0
    /\ Len(metricsData) > 0
    /\ ret.err = Errorf("no categories with metrics found", <<>>)

\* the weight of C11 for a participating category, times n * WeightDen,
\* with n the number of categories that have a recorded metric
WeightOverParticipating(id, n) ==
    IF id \in DOMAIN leversConfig.Weights.Categories
        THEN leversConfig.Weights.Categories[id] * n
        ELSE WeightDen

\* C11: a participating category without a configured weight is weighted
\* 1/(number of categories with a recorded metric); the overall score is
\* the truncated sum with these weights, and when no weight is configured
\* the weights sum to 1, so that categories with the same score s give s.
C11_DefaultWeight ==
    IsOverallScore =>
        LET cats  == ret.val[1].Categories
            n     == Len(cats)
            total == Sum([i \in 1..n |->
                        cats[i].Score * WeightOverParticipating(cats[i].ID, n)])
        IN  /\ ret.val[1].Score * WeightDen * n <= total
            /\ total < (ret.val[1].Score + 1) * WeightDen * n
            /\ ( /\ DOMAIN leversConfig.Weights.Categories = {}
                 /\ \A i \in 1..n : cats[i].Score = cats[1].Score )
                  => ret.val[1].Score = cats[1].Score

\* the participating categories with at least one observation of the type
WithType(categoryScores, metricType) ==
    SelectSeq(categoryScores,
              LAMBDA c : Len(OfType(c.Metrics, metricType)) > 0)

\* C12: a participating category contributes its KPI (KRI) sub-score to
\* the overall KPI (KRI) sub-score exactly when it has a KPI (KRI)
\* observation, a sub-score of 0 included; the overall sub-status is the
\* Yellow default only when no participating category has such an
\* observation and is otherwise the classification of the sub-score against
\* the global KPI (KRI) thresholds.
C12_SubScoreContribution ==
    IsOverallScore =>
        LET os   == ret.val[1]
            kpis == WithType(os.Categories, KPI)
            kris == WithType(os.Categories, KRI)
        IN  /\ os.KPIScore = overallSubScore(
                  [i \in 1..Len(kpis) |-> kpis[i].KPIScore], WeightsOf(kpis))
            /\ os.KRIScore = overallSubScore(
                  [i \in 1..Len(kris) |-> kris[i].KRIScore], WeightsOf(kris))
            /\ os.KPIStatus = IF Len(kpis) = 0 THEN Yellow
                              ELSE determineStatus(os.KPIScore,
                                      leversConfig.Global.KPIThresholds)
            /\ os.KRIStatus = IF Len(kris) = 0 THEN Yellow
                              ELSE determineStatus(os.KRIScore,
                                      leversConfig.Global.KRIThresholds)

\* score = trunc(sum(s_i * w_i) / sum(w_i)), or the truncated plain mean
\* when the weights do not sum to more than 0; the s_i are not negative
IsWeightedAverage(score, values, weights) ==
    IF Sum(weights) > 0
        THEN /\ score * Sum(weights) <= SumProd(values, weights)
             /\ SumProd(values, weights) < (score + 1) * Sum(weights)
        ELSE IsTruncatedMean(score, values)

\* C13: the overall KPI and KRI sub-scores are weighted averages over the
\* categories that contributed a sub-score (those the loop appended: a
\* sub-score above 0), with the weights of the overall score, under both
\* methods, and the truncated plain mean when the weights sum to 0 or
\* less; KPI scores 95 at 0.6 and 85 at 0.4 give 91, a single KRI score 75
\* at 0.6 gives 75.
C13_WeightedAverageSubScores ==
    IsOverallScore =>
        LET os   == ret.val[1]
            kpis == SelectSeq(os.Categories, LAMBDA c : c.KPIScore > 0)
            kris == SelectSeq(os.Categories, LAMBDA c : c.KRIScore > 0)
        IN  /\ Len(kpis) > 0 =>
                  IsWeightedAverage(os.KPIScore,
                      [i \in 1..Len(kpis) |-> kpis[i].KPIScore], WeightsOf(kpis))
            /\ Len(kris) > 0 =>
                  IsWeightedAverage(os.KRIScore,
                      [i \in 1..Len(kris) |-> kris[i].KRIScore], WeightsOf(kris))
            /\ (leversConfig.Weights = TestWeights /\ metricsData = TestStore)
                  => os.KPIScore = 91 /\ os.KRIScore = 75

\* weights 1.0 and 0.5 under MedianScoring: 95 and 30 give
\* trunc(110 / 1.5) = 73, neither the weighted sum nor the plain mean
C13_Witness ==
    /\ IsOverallScore
    /\ scoringMethod = MedianScoring
    /\ leversConfig.Weights = HeavyWeights
    /\ Len(ret.val[1].Categories) = 2
    /\ ret.val[1].Categories[1].KPIScore = 95
    /\ ret.val[1].Categories[2].KPIScore = 30
    /\ ret.val[1].KPIScore = 73

----------------------------------------------------------------------------
(* Specification of the category thresholds: the catalog of the category   *)
(* aggregation, levers with and without category-specific thresholds, a    *)
(* store that may hold observations of a category the catalog lacks        *)

Thresholds(gMin, yMin, yMax) ==
    [Green  |-> ThresholdRange(gMin, 100),
     Yellow |-> ThresholdRange(yMin, yMax),
     Red    |-> ThresholdRange(0, yMin - 1)]

\* thresholds under which 95 is Yellow and 85 is Red
StrictThresholds == Thresholds(96, 90, 95)

\* thresholds under which every score is Green
LaxThresholds == Thresholds(0, 0, 0)

OnlyFor(categoryID, thresholds) == [k \in {categoryID} |-> thresholds]

\* the three overrides of test_cat2 in TestScoreCalculator
TestOverrides ==
    [ Categories            |-> EmptyMap,
      CategoryThresholds    |-> OnlyFor(<<"b">>, Thresholds(85, 70, 84)),
      CategoryKPIThresholds |-> OnlyFor(<<"b">>, Thresholds(90, 75, 89)),
      CategoryKRIThresholds |-> OnlyFor(<<"b">>, Thresholds(80, 65, 79)) ]

\* an override of the KPI thresholds of category a and of nothing else
KPIOverride ==
    [NoWeights EXCEPT !.CategoryKPIThresholds = OnlyFor(<<"a">>, StrictThresholds)]

\* overrides of the category and KRI thresholds of a, KPI thresholds of b
MixedOverrides ==
    [ Categories            |-> EmptyMap,
      CategoryThresholds    |-> OnlyFor(<<"a">>, StrictThresholds),
      CategoryKPIThresholds |-> OnlyFor(<<"b">>, LaxThresholds),
      CategoryKRIThresholds |-> OnlyFor(<<"a">>, StrictThresholds) ]

OverrideInputs == {NoWeights, TestOverrides, KPIOverride, MixedOverrides}

OverrideMetricInputs ==
    {Metric(r, v) : r \in {Ref(<<"a">>, KPI, <<"x">>), Ref(<<"a">>, KRI, <<"y">>)},
                    v \in {3, 17}}
    \cup {Metric(Ref(<<"b">>, KPI, <<"x">>), v) : v \in {3, 92}}
    \cup {Metric(Ref(<<"q">>, KPI, <<"x">>), 3)}

InitOverride ==
    /\ metricsConfig = CategoryCatalog
    /\ \E weights \in OverrideInputs :
          leversConfig = [Global |-> TestGlobal, Weights |-> weights]
    /\ scoringMethod \in {MedianScoring, AverageScoring}
    /\ metricsData \in SeqsUpTo(OverrideMetricInputs, MaxMetrics)
    /\ ret = NoReturn
    /\ files = NoFiles
    /\ cmds = NoCommands

SpecOverride == InitOverride /\ [][NextCategory]_vars

----------------------------------------------------------------------------
(* Claims about the category thresholds *)

\* the thresholds of C14: the entry of the category when the map has one,
\* the global set otherwise
Chosen(overrides, id, global) ==
    IF \E k \in DOMAIN overrides : k = id THEN overrides[id] ELSE global

Classify(score, thresholds) ==
    IF Within(score, thresholds.Green) THEN Green
    ELSE IF Within(score, thresholds.Yellow) THEN Yellow
    ELSE Red

\* C14: the category score is classified with CategoryThresholds[id] when
\* present and Global.Thresholds otherwise, the KPI sub-score with
\* CategoryKPIThresholds[id] else Global.KPIThresholds, the KRI sub-score
\* with CategoryKRIThresholds[id] else Global.KRIThresholds; each lookup
\* depends on its own map and on the id of the category only.
C14_ThresholdOverride ==
    IsCategoryScore =>
        LET cs == ret.val[1]
            w  == leversConfig.Weights
            g  == leversConfig.Global
        IN  /\ cs.Status = Classify(cs.Score,
                  Chosen(w.CategoryThresholds, ret.arg, g.Thresholds))
            /\ Len(OfType(cs.Metrics, KPI)) > 0 =>
                  cs.KPIStatus = Classify(cs.KPIScore,
                      Chosen(w.CategoryKPIThresholds, ret.arg, g.KPIThresholds))
            /\ Len(OfType(cs.Metrics, KRI)) > 0 =>
                  cs.KRIStatus = Classify(cs.KRIScore,
                      Chosen(w.CategoryKRIThresholds, ret.arg, g.KRIThresholds))

\* category a, all scores 95: Yellow under its category override, Green
\* for the KPI sub-score whose only override belongs to category b
C14_Witness ==
    /\ IsCategoryScore
    /\ ret.arg = <<"a">>
    /\ leversConfig.Weights = MixedOverrides
    /\ ret.val[1].Score = 95
    /\ ret.val[1].KPIScore = 95
    /\ ret.val[1].Status = Yellow
    /\ ret.val[1].KPIStatus = Green

\* C15: a category with observations but none of type KPI (KRI) has
\* KPIStatus (KRIStatus) Yellow and KPIScore (KRIScore) 0, whatever the
\* thresholds and overrides; with such an observation the sub-status is
\* the classification of the sub-score.
C15_DefaultSubStatus ==
    IsCategoryScore =>
        LET cs == ret.val[1]
            w  == leversConfig.Weights
            g  == leversConfig.Global
        IN  /\ cs.KPIStatus =
                  IF Len(OfType(cs.Metrics, KPI)) = 0 THEN Yellow
                  ELSE Classify(cs.KPIScore,
                      Chosen(w.CategoryKPIThresholds, ret.arg, g.KPIThresholds))
            /\ cs.KRIStatus =
                  IF Len(OfType(cs.Metrics, KRI)) = 0 THEN Yellow
                  ELSE Classify(cs.KRIScore,
                      Chosen(w.CategoryKRIThresholds, ret.arg, g.KRIThresholds))
            /\ Len(OfType(cs.Metrics, KPI)) = 0 => cs.KPIScore = 0
            /\ Len(OfType(cs.Metrics, KRI)) = 0 => cs.KRIScore = 0

\* category a with KRI observations only, under a KPI override that would
\* classify the sub-score 0 as Red
C15_Witness ==
    /\ IsCategoryScore
    /\ ret.arg = <<"a">>
    /\ leversConfig.Weights = KPIOverride
    /\ Len(OfType(ret.val[1].Metrics, KPI)) = 0
    /\ Len(ret.val[1].Metrics) >= 2
    /\ ret.val[1].KPIStatus = Yellow
    /\ ret.val[1].KPIScore = 0
    /\ ret.val[1].KRIStatus = Red

IsCategoryCall == ret.op = "CalculateCategoryScore"

\* C20: CalculateCategoryScore(id) fails with category-not-found when the
\* catalog has no category id, observations of id or not, and with the
\* no-metrics error when the category exists and no observation has id as
\* its first segment; neither returns a CategoryScore.
C20_CategoryLookupErrors ==
    IsCategoryCall =>
        LET inCatalog == \E i \in 1..Len(CatalogIDs) : CatalogIDs[i] = ret.arg
        IN  /\ ~inCatalog =>
                  /\ ret.val = <<>>
                  /\ ret.err = Errorf("category not found: ", ret.arg)
            /\ (inCatalog /\ ~HasMetrics(ret.arg)) =>
                  /\ ret.val = <<>>
                  /\ ret.err = Errorf("no metrics found for category: ", ret.arg)

\* the store holds an observation of q, which the catalog lacks
C20_Witness ==
    /\ IsCategoryCall
    /\ ret.arg = <<"q">>
    /\ HasMetrics(<<"q">>)
    /\ ret.err = Errorf("category not found: ", <<"q">>)
    /\ ret.val = <<>>

----------------------------------------------------------------------------
(* Specification of the metric score: CalculateMetricScore on any metric,  *)
(* whether the catalog defines it or not and whatever its reference        *)

\* the characters of the model: ASCII letters and digits, and one letter
\* and one digit outside ASCII (e with acute accent, Arabic-Indic three),
\* each of two bytes in UTF-8
AsciiLetters ==
    {
      "a", "b", "c", "d", "e", "f", "g", "h", "i", "j", "k", "l", "m", "n",
      "o", "p", "q", "r", "s", "t", "u", "v", "w", "x", "y", "z", "A", "B",
      "C", "D", "E", "F", "G", "H", "I", "J", "K", "L", "M", "N", "O", "P",
      "Q", "R", "S", "T", "U", "V", "W", "X", "Y", "Z" }

AsciiDigits == {"0", "1", "2", "3", "4", "5", "6", "7", "8", "9"}

EAcute == "U+00E9"
ArabicThree == "U+0663"

RECURSIVE Repeat(_, _)
Repeat(c, n) == IF n = 0 THEN <<>> ELSE <<c>> \o Repeat(c, n - 1)

\* isValidReference accepts at most this many bytes
ReferenceLimit == 100

\* a.KPI.xx...x of ReferenceLimit bytes, and of one byte more
LimitRef == Ref(<<"a">>, KPI, Repeat("x", ReferenceLimit - 6))
LongRef  == Ref(<<"a">>, KPI, Repeat("x", ReferenceLimit - 5))

FooRef == Ref(<<"a">>, <<"F", "O", "O">>, <<"c">>)

\* references outside the grammar: the empty one, two and four segments,
\* a type that is not KPI or KRI, an empty id, a character that is neither
\* letter, digit, dot, underscore nor hyphen, and one byte too many
MalformedRefs ==
    { <<>>, TwoPartRef, FooRef,
      Ref(<<"a">>, KPI, <<"x", Dot, "y">>),
      Ref(<<"a">>, <<"k", "p", "i">>, <<"x">>),
      Ref(<<"a">>, KPI, <<>>),
      Ref(<<"a", "!">>, KPI, <<"x">>),
      LongRef }

\* app_sec.KPI.vuln_remediation_time
VulnRef ==
    Ref(<<"a", "p", "p", "_", "s", "e", "c">>, KPI,
        <<"v", "u", "l", "n", "_", "r", "e", "m", "e", "d", "i", "a", "t",
          "i", "o", "n", "_", "t", "i", "m", "e">>)

\* the category app_sec of the default metrics configuration
DefaultCatalog ==
    [Categories |-> <<
        Category(Split(VulnRef)[1], "Application Security",
            << [ID |-> Split(VulnRef)[3],
                ScoringBands |->
                  << ScoringBand(NilPtr, FloatPtr(15), 95),
                     ScoringBand(FloatPtr(15), FloatPtr(30), 85),
                     ScoringBand(FloatPtr(30), FloatPtr(45), 75),
                     ScoringBand(FloatPtr(45), FloatPtr(60), 65),
                     ScoringBand(FloatPtr(60), NilPtr, 30) >>] >>,
            << [ID |-> <<"c", "r", "i", "t", "i", "c", "a", "l", "_", "v", "u",
                        "l", "n", "s">>,
                ScoringBands |->
                  << ScoringBand(NilPtr, FloatPtr(0), 95),
                     ScoringBand(FloatPtr(0), FloatPtr(2), 85),
                     ScoringBand(FloatPtr(2), FloatPtr(5), 75),
                     ScoringBand(FloatPtr(5), FloatPtr(10), 65),
                     ScoringBand(FloatPtr(10), NilPtr, 30) >>] >>) >>]

\* the thresholds of the default levers configuration, for the overall
\* score and for both metric types
DefaultGlobal ==
    [ Thresholds    |-> Thresholds(80, 60, 79),
      KPIThresholds |-> Thresholds(80, 60, 79),
      KRIThresholds |-> Thresholds(80, 60, 79) ]

\* a category whose KPI x and KRI y are declared without scoring bands
BandlessCatalog ==
    [Categories |-> <<
        Category(<<"a">>, "No Bands",
                 << [ID |-> <<"x">>, ScoringBands |-> <<>>] >>,
                 << [ID |-> <<"y">>, ScoringBands |-> <<>>] >>) >>]

MetricRefInputs ==
    { Ref(<<"a">>, KPI, <<"x">>), Ref(<<"a">>, KRI, <<"y">>),
      Ref(<<"b">>, KPI, <<"x">>), Ref(<<"a">>, KRI, <<"x">>),
      Ref(<<"q">>, KPI, <<"x">>), UndefinedRef, LimitRef, VulnRef }
    \cup MalformedRefs

MetricValueInputs == {3, 17, 45}

InitMetric ==
    /\ \/ /\ metricsConfig \in
                 {CategoryCatalog, EmptyCatalog, BandlessCatalog}
          /\ \E weights \in OverrideInputs :
                leversConfig = [Global |-> TestGlobal, Weights |-> weights]
       \/ /\ metricsConfig = DefaultCatalog
          /\ leversConfig = [Global |-> DefaultGlobal, Weights |-> NoWeights]
    /\ scoringMethod \in {MedianScoring, AverageScoring}
    /\ metricsData \in {<<>>, TestStore}
    /\ ret = NoReturn
    /\ files = NoFiles
    /\ cmds = NoCommands

CallCalculateMetricScore ==
    \E reference \in MetricRefInputs, value \in MetricValueInputs :
        /\ ret' = returned("CalculateMetricScore", Metric(reference, value),
                           CalculateMetricScore(Metric(reference, value)))
        /\ UNCHANGED <<disk, metricsConfig, leversConfig, scoringMethod,
                       metricsData>>

NextMetric == CallCalculateMetricScore

SpecMetric == InitMetric /\ [][NextMetric]_vars

----------------------------------------------------------------------------
(* Claims about the metric score *)

IsMetricCall == ret.op = "CalculateMetricScore"
IsMetricScore == IsMetricCall /\ ret.err = Nil

\* C16: the status of a metric score is the classification of the score
\* against Global.KPIThresholds for a KPI observation and against
\* Global.KRIThresholds for a KRI observation; Global.Thresholds and the
\* category overrides play no part (a KRI score 75 is Green with KRI Green
\* [75,100] although the overall Green range is [80,100]).
C16_MetricStatusThresholds ==
    IsMetricScore =>
        LET ms   == ret.val[1]
            type == Split(ret.arg.Reference)[2]
        IN  /\ type = KPI => ms.Status =
                  Classify(ms.Score, leversConfig.Global.KPIThresholds)
            /\ type = KRI => ms.Status =
                  Classify(ms.Score, leversConfig.Global.KRIThresholds)
            /\ (type = KRI /\ ms.Score = 75) => ms.Status = Green

\* a KRI observation of category a scoring 75: Yellow by the overall
\* thresholds, Red by the KRI override of a, Green by the global KRI set
C16_Witness ==
    /\ IsMetricScore
    /\ ret.arg.Reference = Ref(<<"a">>, KRI, <<"y">>)
    /\ leversConfig.Weights = MixedOverrides
    /\ ret.val[1].Score = 75
    /\ ret.val[1].Status = Green
    /\ Classify(75, leversConfig.Global.Thresholds) = Yellow
    /\ Classify(75, leversConfig.Weights.CategoryKRIThresholds[<<"a">>]) = Red

\* the reference grammar of C17 and C18: [A-Za-z0-9_.-]{1,100}, exactly
\* three non-empty dot-separated segments, the second one KPI or KRI
GrammarChars == AsciiLetters \cup AsciiDigits \cup {"_", ".", "-"}

SatisfiesGrammar(reference) ==
    /\ Len(reference) \in 1..100
    /\ \A i \in 1..Len(reference) : reference[i] \in GrammarChars
    /\ Len(Split(reference)) = 3
    /\ \A i \in 1..3 : Split(reference)[i] # <<>>
    /\ Split(reference)[2] \in {KPI, KRI}

InvalidReferenceMessages ==
    { "invalid metric reference format: ", "invalid metric type: ",
      "unknown metric type: " }

\* C17 as claimed: CalculateMetricScore fails with an invalid-reference
\* error, whatever the catalog, for every reference that violates the
\* grammar: never a not-found error, never a score.
C17_InvalidReference ==
    (IsMetricCall /\ ~SatisfiesGrammar(ret.arg.Reference)) =>
        /\ ret.val = <<>>
        /\ ret.err.msg \in InvalidReferenceMessages

InCatalog(id) == \E i \in 1..Len(CatalogIDs) : CatalogIDs[i] = id

Defined(categoryID, metricType, metricID) ==
    \E i \in 1..Len(metricsConfig.Categories) :
        /\ metricsConfig.Categories[i].ID = categoryID
        /\ \A j \in 1..(i - 1) : metricsConfig.Categories[j].ID # categoryID
        /\ LET defs == IF metricType = KPI
                          THEN metricsConfig.Categories[i].KPIs
                          ELSE metricsConfig.Categories[i].KRIs
           IN  \E k \in 1..Len(defs) : defs[k].ID = metricID

\* C17 as amended: a reference that is not exactly three dot-separated
\* segments fails with the invalid-format error, whatever the catalog; of
\* three segments, the first is looked up before the type is tested, so
\* that a type other than KPI or KRI fails with category-not-found when the
\* catalog lacks the category and with invalid-metric-type otherwise; with
\* type KPI or KRI the reference is looked up as it is, whatever its
\* characters, empty segments and length, and fails only with a not-found
\* error for a category or definition the catalog lacks.
C17_InvalidReferenceAmended ==
    IsMetricCall =>
        LET reference == ret.arg.Reference
            parts     == Split(reference)
        IN  IF Len(parts) # 3
                THEN /\ ret.val = <<>>
                     /\ ret.err = Errorf("invalid metric reference format: ",
                                         reference)
            ELSE IF ~InCatalog(parts[1])
                THEN /\ ret.val = <<>>
                     /\ ret.err = Errorf("category not found: ", parts[1])
            ELSE IF parts[2] \notin {KPI, KRI}
                THEN /\ ret.val = <<>>
                     /\ ret.err = Errorf("invalid metric type: ", parts[2])
            ELSE IF ~Defined(parts[1], parts[2], parts[3])
                THEN /\ ret.val = <<>>
                     /\ ret.err = Errorf(IF parts[2] = KPI
                                            THEN "KPI not found: "
                                            ELSE "KRI not found: ", parts[3])
            ELSE ret.err = Nil /\ Len(ret.val) = 1

\* a.FOO.c on a catalog without category a: category-not-found
C17_Witness ==
    /\ IsMetricCall
    /\ ret.arg.Reference = FooRef
    /\ ~InCatalog(<<"a">>)
    /\ ret.val = <<>>
    /\ ret.err = Errorf("category not found: ", <<"a">>)

\* C21 as claimed: the default KPI app_sec.KPI.vuln_remediation_time with a
\* recorded value of 45 scores 65 with status Yellow under the thresholds
\* Green [80,100], Yellow [60,79], Red [0,59].
C21_DefaultScenario ==
    (IsMetricScore /\ metricsConfig = DefaultCatalog
                   /\ ret.arg = Metric(VulnRef, 45)) =>
        /\ ret.val[1].Score = 65
        /\ ret.val[1].Status = Yellow

\* C21 as amended: the value 45 lies in the band [30,45], bounds included,
\* which is declared before the band [45,60]: the score is 75, and the
\* status is Yellow.
C21_DefaultScenarioAmended ==
    (IsMetricScore /\ metricsConfig = DefaultCatalog
                   /\ ret.arg = Metric(VulnRef, 45)) =>
        /\ ret.val[1].Score = 75
        /\ ret.val[1].Status = Yellow

C21_Witness ==
    /\ IsMetricScore
    /\ metricsConfig = DefaultCatalog
    /\ leversConfig.Global.KPIThresholds = Thresholds(80, 60, 79)
    /\ ret.arg = Metric(VulnRef, 45)
    /\ ret.val[1].Reference = VulnRef
    /\ ret.val[1].Score = 75

\* the definition a reference names, when the catalog has it
DefinitionOf(reference) ==
    LET parts == Split(reference)
        cat   == CHOOSE i \in 1..Len(metricsConfig.Categories) :
                    /\ metricsConfig.Categories[i].ID = parts[1]
                    /\ \A j \in 1..(i - 1) :
                          metricsConfig.Categories[j].ID # parts[1]
        defs  == IF parts[2] = KPI THEN metricsConfig.Categories[cat].KPIs
                                   ELSE metricsConfig.Categories[cat].KRIs
    IN  defs[CHOOSE k \in 1..Len(defs) :
                /\ defs[k].ID = parts[3]
                /\ \A j \in 1..(k - 1) : defs[j].ID # parts[3]]

\* C22: a metric whose definition has no scoring bands scores 50 whatever
\* its value, KPI or KRI, and its status is the classification of 50
\* against the global thresholds of its type.
C22_NoBandsNeutral ==
    (IsMetricScore /\ DefinitionOf(ret.arg.Reference).ScoringBands = <<>>) =>
        LET ms   == ret.val[1]
            type == Split(ret.arg.Reference)[2]
        IN  /\ ms.Score = 50
            /\ ms.Status = Classify(50,
                    IF type = KPI THEN leversConfig.Global.KPIThresholds
                                  ELSE leversConfig.Global.KRIThresholds)

\* the band-less KPI x observed at 17: score 50, Red under KPI Red [0,64]
C22_Witness ==
    /\ IsMetricScore
    /\ metricsConfig = BandlessCatalog
    /\ ret.arg = Metric(Ref(<<"a">>, KPI, <<"x">>), 17)
    /\ ret.val[1].Score = 50
    /\ ret.val[1].Status = Red

----------------------------------------------------------------------------
(* The metric store: GetMetricByReference and UpdateMetric *)

\* an observation with the fields UpdateMetric writes; the time is a number
StoredMetric(reference, value, timestamp, sourceFile) ==
    [Reference |-> reference, Value |-> value,
     Timestamp |-> timestamp, SourceFile |-> sourceFile]

\* the index of the first observation with the reference, 0 if none
RECURSIVE findByReference(_, _, _)
findByReference(metrics, reference, i) ==
    IF i > Len(metrics) THEN 0
    ELSE IF metrics[i].Reference = reference THEN i
    ELSE findByReference(metrics, reference, i + 1)

metricAt(reference, i) ==
    IF i = 0
        THEN [val |-> <<>>, err |-> Errorf("metric not found: ", reference)]
        ELSE [val |-> <<metricsData[i]>>, err |-> Nil]

GetMetricByReference(reference) ==
    metricAt(reference, findByReference(metricsData, reference, 1))

\* unicode.IsLetter and unicode.IsDigit on the characters of the model
IsLetter(char) == char \in AsciiLetters \cup {EAcute}
IsDigit(char) == char \in AsciiDigits \cup {ArabicThree}

\* len(reference): the number of bytes of the UTF-8 encoding
RECURSIVE ByteLen(_)
ByteLen(reference) ==
    IF reference = <<>> THEN 0
    ELSE (IF Head(reference) \in {EAcute, ArabicThree} THEN 2 ELSE 1)
            + ByteLen(Tail(reference))

validParts(parts) ==
    IF Len(parts) # 3 THEN FALSE
    ELSE IF \E i \in 1..Len(parts) : parts[i] = <<>> THEN FALSE
    ELSE IF parts[2] # KPI /\ parts[2] # KRI THEN FALSE
    ELSE TRUE

\* a validation without the test of the length
isValidReferenceMutNoLimit(reference) ==
    IF reference = <<>> THEN FALSE
    ELSE IF \E i \in 1..Len(reference) :
               /\ ~IsLetter(reference[i]) /\ ~IsDigit(reference[i])
               /\ reference[i] \notin {".", "_", "-"}
        THEN FALSE
    ELSE validParts(Split(reference))

isValidReference(reference) ==
    IF reference = <<>> \/ ByteLen(reference) > ReferenceLimit THEN FALSE
    ELSE IF \E i \in 1..Len(reference) :
               /\ ~IsLetter(reference[i]) /\ ~IsDigit(reference[i])
               /\ reference[i] \notin {".", "_", "-"}
        THEN FALSE
    ELSE validParts(Split(reference))

\* an update that appends the observation whether the store has it or not
storeMetricMutAppend(metrics, i, reference, value, now, sourceFile) ==
    Append(metrics, StoredMetric(reference, value, now, sourceFile))

\* an update that overwrites every observation with the reference
storeMetricMutAll(metrics, i, reference, value, now, sourceFile) ==
    IF i = 0
        THEN Append(metrics, StoredMetric(reference, value, now, sourceFile))
        ELSE [j \in 1..Len(metrics) |->
                IF metrics[j].Reference = reference
                    THEN [metrics[j] EXCEPT !.Value = value, !.Timestamp = now]
                    ELSE metrics[j]]

\* the loop of UpdateMetric, i the index of the first match, and the append
storeMetric(metrics, i, reference, value, now, sourceFile) ==
    IF i = 0
        THEN Append(metrics, StoredMetric(reference, value, now, sourceFile))
        ELSE [metrics EXCEPT
                ![i] = [@ EXCEPT !.Value = value,
                                 !.Timestamp = now,
                                 !.SourceFile = IF @ = <<>> THEN sourceFile
                                                ELSE @]]

\* the result of UpdateMetric: the store afterwards and the error
UpdateMetric(reference, value, now) ==
    IF ~isValidReference(reference)
        THEN [data |-> metricsData,
              err  |-> Errorf("invalid metric reference format: ", reference)]
        ELSE [data |-> storeMetric(metricsData,
                          findByReference(metricsData, reference, 1),
                          reference, value, now,
                          Split(reference)[1] \o <<".", "y", "a", "m", "l">>),
              err  |-> Nil]

----------------------------------------------------------------------------
(* Specification of the metric store: a store as loaded from the data      *)
(* files or built in memory, then any sequence of updates and lookups      *)

\* a reference with a letter and a digit outside ASCII
UnicodeRef == Ref(<<EAcute>>, KPI, <<ArabicThree>>)

UpdateRefInputs ==
    { Ref(<<"a">>, KPI, <<"x">>), Ref(<<"b">>, KPI, <<"x">>),
      Ref(<<"a">>, KRI, <<"n", "_", "1", "-", "m">>),
      UnicodeRef, LimitRef,
      \* ReferenceLimit characters, one of them of two bytes
      Ref(<<EAcute>>, KPI, Repeat("x", ReferenceLimit - 6)) }
    \cup MalformedRefs

LookupRefInputs ==
    { Ref(<<"a">>, KPI, <<"x">>), Ref(<<"b">>, KPI, <<"x">>), UnicodeRef }

\* observations with and without a source file
UpdateStoreInputs ==
    { StoredMetric(Ref(<<"a">>, KPI, <<"x">>), 3, 0, <<>>),
      StoredMetric(Ref(<<"a">>, KPI, <<"x">>), 3, 0,
                   <<"m", ".", "y", "a", "m", "l">>),
      StoredMetric(Ref(<<"b">>, KPI, <<"x">>), 3, 0, <<>>) }

InitUpdate ==
    /\ metricsConfig = CategoryCatalog
    /\ leversConfig = [Global |-> TestGlobal, Weights |-> NoWeights]
    /\ scoringMethod = MedianScoring
    /\ metricsData \in SeqsUpTo(UpdateStoreInputs, MaxMetrics)
    /\ ret = NoReturn
    /\ files = NoFiles
    /\ cmds = NoCommands

\* the step of a call of UpdateMetric with result updated
updateStep(reference, value, updated) ==
    /\ Len(updated.data) <= MaxMetrics + 1
    /\ metricsData' = updated.data
    /\ ret' = [op  |-> "UpdateMetric",
               arg |-> Metric(reference, value),
               val |-> <<>>,
               err |-> updated.err]
    /\ UNCHANGED <<disk, metricsConfig, leversConfig, scoringMethod>>

\* the store grows by one observation at most beyond the loaded ones
CallUpdateMetric ==
    \E reference \in UpdateRefInputs, value \in {9}, now \in {1} :
        updateStep(reference, value, UpdateMetric(reference, value, now))

CallGetMetricByReference ==
    \E reference \in LookupRefInputs :
        /\ ret' = returned("GetMetricByReference", reference,
                           GetMetricByReference(reference))
        /\ UNCHANGED <<disk, metricsConfig, leversConfig, scoringMethod,
                       metricsData>>

NextUpdate == CallUpdateMetric \/ CallGetMetricByReference

SpecUpdate == InitUpdate /\ [][NextUpdate]_vars

----------------------------------------------------------------------------
(* Claims about the metric store *)

\* a step of UpdateMetric: it leaves its call in ret
UpdateStep == ret'.op = "UpdateMetric"

\* C18 as claimed: UpdateMetric rejects, with an error and the store left
\* as it was, exactly the references that violate the grammar
\* [A-Za-z0-9_.-]{1,100} of three non-empty segments with type KPI or KRI,
\* and accepts every reference that satisfies it.
C18_RejectsOutsideGrammar ==
    [][UpdateStep =>
          IF SatisfiesGrammar(ret'.arg.Reference)
              THEN ret'.err = Nil
              ELSE ret'.err # Nil /\ metricsData' = metricsData]_vars

\* the grammar with the letters and digits of Unicode and the length in
\* bytes
SatisfiesByteGrammar(reference) ==
    /\ ByteLen(reference) \in 1..100
    /\ \A i \in 1..Len(reference) :
          \/ IsLetter(reference[i])
          \/ IsDigit(reference[i])
          \/ reference[i] \in {"_", ".", "-"}
    /\ Len(Split(reference)) = 3
    /\ \A i \in 1..3 : Split(reference)[i] # <<>>
    /\ Split(reference)[2] \in {KPI, KRI}

\* C18 as amended: UpdateMetric rejects, with the invalid-format error and
\* the store left as it was, exactly the references that are empty, longer
\* than 100 bytes, hold a character that is neither a Unicode letter, a
\* Unicode digit, a dot, an underscore nor a hyphen, are not three
\* non-empty dot-separated segments, or whose type segment is not KPI or
\* KRI; it accepts every other reference.
C18_RejectsOutsideByteGrammar ==
    [][UpdateStep =>
          IF SatisfiesByteGrammar(ret'.arg.Reference)
              THEN ret'.err = Nil
              ELSE /\ ret'.err = Errorf("invalid metric reference format: ",
                                        ret'.arg.Reference)
                   /\ metricsData' = metricsData]_vars

\* a reference with a letter and a digit outside ASCII was accepted and
\* stored
C18_Witness ==
    /\ ret.op = "UpdateMetric"
    /\ ret.arg.Reference = UnicodeRef
    /\ ret.err = Nil
    /\ Len(metricsData) > 1
    /\ metricsData[Len(metricsData)].Reference = UnicodeRef

\* the index of the first observation with the reference
FirstWith(metrics, reference) ==
    CHOOSE i \in 1..Len(metrics) :
        /\ metrics[i].Reference = reference
        /\ \A j \in 1..(i - 1) : metrics[j].Reference # reference

\* C19: an accepted UpdateMetric(ref, v) overwrites the value of the first
\* observation with ref and leaves the number of observations and the
\* reference and value of every other observation as they were, or, if
\* there is none, appends (ref, v) at the end and leaves the others
\* unchanged; afterwards GetMetricByReference(ref) returns value v.
C19_OverwriteOrAppend ==
    [][(UpdateStep /\ ret'.err = Nil) =>
          LET reference == ret'.arg.Reference
              n         == Len(metricsData)
          IN  /\ IF \E i \in 1..n : metricsData[i].Reference = reference
                    THEN /\ Len(metricsData') = n
                         /\ \A i \in 1..n :
                               /\ metricsData'[i].Reference =
                                     metricsData[i].Reference
                               /\ metricsData'[i].Value =
                                     IF i = FirstWith(metricsData, reference)
                                         THEN ret'.arg.Value
                                         ELSE metricsData[i].Value
                    ELSE /\ Len(metricsData') = n + 1
                         /\ \A i \in 1..n : metricsData'[i] = metricsData[i]
                         /\ metricsData'[n + 1].Reference = reference
                         /\ metricsData'[n + 1].Value = ret'.arg.Value
              /\ \E i \in 1..Len(metricsData') :
                    metricsData'[i].Reference = reference
              /\ metricsData'[FirstWith(metricsData', reference)].Value
                    = ret'.arg.Value]_vars

\* two observations with the same reference: the first was overwritten,
\* the second keeps its value
C19_Witness ==
    /\ ret.op = "UpdateMetric"
    /\ ret.err = Nil
    /\ Len(metricsData) >= 3
    /\ metricsData[1].Reference # ret.arg.Reference
    /\ metricsData[2].Reference = ret.arg.Reference
    /\ metricsData[3].Reference = ret.arg.Reference
    /\ metricsData[2].Value = ret.arg.Value
    /\ metricsData[3].Value # ret.arg.Value


Distinct(metrics) ==
    \A i, j \in 1..Len(metrics) :
        metrics[i].Reference = metrics[j].Reference => i = j

\* C29: an UpdateMetric call on a store whose references are pairwise
\* distinct leaves them pairwise distinct; the number of observations grows
\* by one when the call succeeds on a reference the store lacks and stays
\* the same otherwise, so that it never decreases.
C29_UniquenessPreserved ==
    [][UpdateStep =>
          LET reference == ret'.arg.Reference
              present   == \E i \in 1..Len(metricsData) :
                              metricsData[i].Reference = reference
          IN  /\ Distinct(metricsData) => Distinct(metricsData')
              /\ Len(metricsData') =
                    Len(metricsData) +
                    (IF ret'.err = Nil /\ ~present THEN 1 ELSE 0)]_vars

\* two accepted updates have appended to a store of distinct references
C29_Witness ==
    /\ ret.op = "UpdateMetric"
    /\ ret.err = Nil
    /\ Distinct(metricsData)
    /\ Len(metricsData) = MaxMetrics + 1
    /\ metricsData[Len(metricsData)].Reference = ret.arg.Reference
    /\ metricsData[1].Reference = Ref(<<"a">>, KPI, <<"x">>)


----------------------------------------------------------------------------
(* Specification of the engine in use: a catalog, a store as loaded from   *)
(* the data files on which the overall score succeeds, then any sequence   *)
(* of updates and score requests on the one MetricsProcessor               *)

InitEngine ==
    /\ metricsConfig = TestCatalog
    /\ leversConfig = [Global |-> TestGlobal, Weights |-> NoWeights]
    /\ scoringMethod \in {MedianScoring, AverageScoring}
    /\ metricsData \in
          SeqsUpTo({ StoredMetric(Ref(<<"a">>, KPI, <<"x">>), 17, 0,
                                  <<"m", ".", "y", "a", "m", "l">>),
                     StoredMetric(Ref(<<"b">>, KPI, <<"x">>), 92, 0,
                                  <<"b", ".", "y", "a", "m", "l">>) },
                   MaxMetrics - 1) \ {<<>>}
    /\ ret = NoReturn
    /\ files = NoFiles
    /\ cmds = NoCommands

\* the metric score of an observation of the store
CallScoreStoredMetric ==
    \E i \in 1..Len(metricsData) :
        LET metric == Metric(metricsData[i].Reference, metricsData[i].Value)
        IN  /\ ret' = returned("CalculateMetricScore", metric,
                               CalculateMetricScore(metric))
            /\ UNCHANGED <<disk, metricsConfig, leversConfig, scoringMethod,
                           metricsData>>

\* UpdateMetric on a defined metric the store has or lacks, on metrics the
\* catalog does not define, and on a malformed reference
CallUpdateMetricEngine ==
    \E reference \in { Ref(<<"a">>, KPI, <<"x">>), Ref(<<"b">>, KPI, <<"x">>),
                        Ref(<<"a">>, KRI, <<"y">>), UndefinedRef,
                        UnicodeRef, TwoPartRef },
       value \in {9}, now \in {1} :
        updateStep(reference, value, UpdateMetric(reference, value, now))

NextEngine ==
    \/ CallUpdateMetricEngine
    \/ CallScoreStoredMetric
    \/ CallCalculateCategoryScore
    \/ CallCalculateOverallScore

SpecEngine == InitEngine /\ [][NextEngine]_vars

----------------------------------------------------------------------------
(* Claims about the engine in use *)

ScoreOps ==
    {"CalculateMetricScore", "CalculateCategoryScore", "CalculateOverallScore"}

\* C23: a step of CalculateMetricScore, CalculateCategoryScore or
\* CalculateOverallScore, successful or not, leaves the store, the metric
\* definitions and the levers configuration as they were; a step that
\* changes the store is a step of UpdateMetric.
C23_ReadOnly ==
    [][/\ ret'.op \in ScoreOps =>
             UNCHANGED <<metricsData, metricsConfig, leversConfig>>
       /\ metricsData' # metricsData => ret'.op = "UpdateMetric"]_vars

\* an overall score has failed on a store that an update has changed
C23_Witness ==
    /\ IsOverallCall
    /\ ret.err # Nil
    /\ \E i \in 1..Len(metricsData) :
          metricsData[i].Value = 9 /\ metricsData[i].Timestamp = 1

\* every score request returns what the store and the configuration give
\* when it is made, and a request repeated at once returns the same
Rederived ==
    /\ \A id \in CategoryIDInputs :
          (ret'.op = "CalculateCategoryScore" /\ ret'.arg = id) =>
              ret' = returned("CalculateCategoryScore", id,
                              CalculateCategoryScore(id))
    /\ ret'.op = "CalculateOverallScore" =>
          ret' = returned("CalculateOverallScore", <<>>,
                          CalculateOverallScore)
    /\ (ret.op \in ScoreOps /\ ret'.op = ret.op /\ ret'.arg = ret.arg) =>
          (ret'.val = ret.val /\ ret'.err = ret.err)

\* the category score of the category of ref is requested right after an
\* accepted UpdateMetric(ref, v)
ScoredAfterUpdate ==
    /\ ret.op = "UpdateMetric"
    /\ ret.err = Nil
    /\ ret'.op = "CalculateCategoryScore"
    /\ ret'.arg = Split(ret.arg.Reference)[1]

ScoreOfUpdate == CalculateMetricScore(ret.arg).val[1].Score

C28_UpdatesKeepScoring ==
    IsOverallCall => ret.err = Nil


----------------------------------------------------------------------------
(* The 0..100 axis of the overall score *)

OnAxis(score) == score \in 0..100

\* every band score of the catalog is in 0..100 and every configured
\* category weight in [0,1]
AxisInputs ==
    /\ \A i \in 1..Len(metricsConfig.Categories) :
          LET c == metricsConfig.Categories[i]
          IN  /\ \A k \in 1..Len(c.KPIs) :
                    \A b \in 1..Len(c.KPIs[k].ScoringBands) :
                       OnAxis(c.KPIs[k].ScoringBands[b].Score)
              /\ \A k \in 1..Len(c.KRIs) :
                    \A b \in 1..Len(c.KRIs[k].ScoringBands) :
                       OnAxis(c.KRIs[k].ScoringBands[b].Score)
    /\ \A id \in DOMAIN leversConfig.Weights.Categories :
          leversConfig.Weights.Categories[id] \in 0..WeightDen

\* C30: with band scores in 0..100 and category weights in [0,1], every
\* Score, KPIScore and KRIScore of the OverallScore returned, of its
\* CategoryScores and of their MetricScores lies in 0..100, and the overall
\* Score lies between the smallest and the largest participating category
\* score.
C30_ScoreAxis ==
    (IsOverallScore /\ AxisInputs) =>
        LET overall == ret.val[1]
            cats    == overall.Categories
        IN  /\ OnAxis(overall.Score)
            /\ OnAxis(overall.KPIScore)
            /\ OnAxis(overall.KRIScore)
            /\ \A i \in 1..Len(cats) :
                  /\ OnAxis(cats[i].Score)
                  /\ OnAxis(cats[i].KPIScore)
                  /\ OnAxis(cats[i].KRIScore)
                  /\ \A k \in 1..Len(cats[i].Metrics) :
                        OnAxis(cats[i].Metrics[k].Score)
            /\ \E i \in 1..Len(cats) : cats[i].Score <= overall.Score
            /\ \E i \in 1..Len(cats) : cats[i].Score >= overall.Score


----------------------------------------------------------------------------
(* The data files: LoadMetricsData and SaveMetricsData.  files.dir tells   *)
(* whether DataDir/metrics exists, files.metrics maps the names of its     *)
(* YAML files to their observations, files.legacy is <<>> or holds the     *)
(* observations of DataDir/metrics.yaml.  A file holds reference, value    *)
(* and timestamp of each observation: SourceFile is not written (yaml "-").*)
(* Every file is valid YAML and every read and write succeeds.             *)

Yaml == <<".", "y", "a", "m", "l">>
LegacyFile == <<"m", "e", "t", "r", "i", "c", "s">> \o Yaml
DefaultFile == <<"d", "e", "f", "a", "u", "l", "t">> \o Yaml

\* the file names of the model, in the order of os.ReadDir (by name)
FileNames == << <<"a">> \o Yaml, <<"b">> \o Yaml, DefaultFile >>

\* yaml.Unmarshal of a file, every observation marked with the file name
readFile(observations, name) ==
    [i \in 1..Len(observations) |->
        StoredMetric(observations[i].Reference, observations[i].Value,
                     observations[i].Timestamp, name)]

loadLegacyMetricsData(dataDir) ==
    IF dataDir.legacy = <<>>
        THEN [data |-> <<>>,
              err  |-> Errorf("failed to read metrics data file: ", <<>>)]
        ELSE [data |-> readFile(dataDir.legacy[1], LegacyFile), err |-> Nil]

\* for _, file := range files, from the i-th name on
RECURSIVE readFiles(_, _)
readFiles(dataDir, i) ==
    IF i > Len(FileNames) THEN <<>>
    ELSE (IF FileNames[i] \in DOMAIN dataDir.metrics
             THEN readFile(dataDir.metrics[FileNames[i]], FileNames[i])
             ELSE <<>>) \o readFiles(dataDir, i + 1)

LoadMetricsData(dataDir) ==
    IF ~dataDir.dir THEN loadLegacyMetricsData(dataDir)
    ELSE IF DOMAIN dataDir.metrics = {}
        THEN IF loadLegacyMetricsData(dataDir).err = Nil
                THEN loadLegacyMetricsData(dataDir)
                ELSE [data |-> <<>>, err |-> Nil]
    ELSE [data |-> readFiles(dataDir, 1), err |-> Nil]

\* sourceFile := metric.SourceFile, "default.yaml" if it is empty
sourceFileOf(metric) ==
    IF metric.SourceFile = <<>> THEN DefaultFile ELSE metric.SourceFile

\* yaml.Marshal of the observations grouped under a file name
fileData(metrics, name) ==
    LET group == SelectSeq(metrics, LAMBDA m : sourceFileOf(m) = name)
    IN  [i \in 1..Len(group) |->
            [Reference |-> group[i].Reference, Value |-> group[i].Value,
             Timestamp |-> group[i].Timestamp]]

\* the data directory after SaveMetricsData; the fileLock is held from the
\* first to the last write, and here the writes are one step
SaveMetricsData(dataDir, metrics) ==
    LET names == {sourceFileOf(metrics[i]) : i \in 1..Len(metrics)}
    IN  [dir     |-> TRUE,
         metrics |-> [name \in DOMAIN dataDir.metrics \cup
                                 (names \ {LegacyFile}) |->
                        IF name \in names THEN fileData(metrics, name)
                        ELSE dataDir.metrics[name]],
         legacy  |-> IF LegacyFile \in names
                        THEN <<fileData(metrics, LegacyFile)>>
                        ELSE dataDir.legacy]

\* UpdateMetric on the processor of a command, which holds metrics
updateMetricOf(metrics, reference, value, now) ==
    IF ~isValidReference(reference)
        THEN [data |-> metrics,
              err  |-> Errorf("invalid metric reference format: ", reference)]
        ELSE [data |-> storeMetric(metrics,
                          findByReference(metrics, reference, 1),
                          reference, value, now,
                          Split(reference)[1] \o Yaml),
              err  |-> Nil]

----------------------------------------------------------------------------
(* Specification of the update command: two runs of "pulse update" on one  *)
(* data directory, each a load, an update in memory and a save, their      *)
(* steps interleaved in any order                                          *)

Observation(reference, value) ==
    [Reference |-> reference, Value |-> value, Timestamp |-> 0]

\* no data at all, the legacy file alone, the legacy file beside an empty
\* directory, an empty directory, a directory of one file and of two
DataDirInputs ==
    { NoFiles,
      [NoFiles EXCEPT
          !.legacy = << <<Observation(Ref(<<"a">>, KPI, <<"x">>), 3)>> >>],
      [NoFiles EXCEPT
          !.dir = TRUE,
          !.legacy = << <<Observation(Ref(<<"a">>, KPI, <<"x">>), 3)>> >>],
      [NoFiles EXCEPT !.dir = TRUE],
      [NoFiles EXCEPT
          !.dir = TRUE,
          !.metrics = [name \in {FileNames[1]} |->
                          <<Observation(Ref(<<"a">>, KPI, <<"x">>), 3)>>]],
      [NoFiles EXCEPT
          !.dir = TRUE,
          !.metrics = [name \in {FileNames[1], FileNames[2]} |->
                          IF name = FileNames[1]
                             THEN <<Observation(Ref(<<"a">>, KPI, <<"x">>), 3),
                                    Observation(Ref(<<"a">>, KRI, <<"y">>), 3)>>
                             ELSE <<Observation(Ref(<<"b">>, KPI, <<"x">>),
                                                3)>>]] }

InitCommands ==
    /\ metricsConfig = TestCatalog
    /\ leversConfig = [Global |-> TestGlobal, Weights |-> NoWeights]
    /\ scoringMethod = MedianScoring
    /\ metricsData = <<>>
    /\ ret = NoReturn
    /\ files \in DataDirInputs
    /\ \E r1, r2 \in { Ref(<<"a">>, KPI, <<"x">>), Ref(<<"a">>, KRI, <<"y">>),
                        Ref(<<"b">>, KPI, <<"x">>), TwoPartRef } :
          /\ r1 # r2
          /\ cmds = [p \in 1..2 |->
                       [pc        |-> "load",
                        metricRef |-> IF p = 1 THEN r1 ELSE r2,
                        metricVal |-> 9,
                        metricsData |-> <<>>]]

\* metricsData, err := configLoader.LoadMetricsData(); os.Exit(1) on error
CmdLoad(p) ==
    /\ cmds[p].pc = "load"
    /\ LET loaded == LoadMetricsData(files)
       IN  cmds' = [cmds EXCEPT
                      ![p].pc = IF loaded.err = Nil THEN "update" ELSE "exit",
                      ![p].metricsData = loaded.data]
    /\ UNCHANGED <<files, metricsConfig, leversConfig, scoringMethod,
                   metricsData, ret>>

\* the format test of the command, then metricsProcessor.UpdateMetric
CmdUpdate(p) ==
    /\ cmds[p].pc = "update"
    /\ LET updated == updateMetricOf(cmds[p].metricsData, cmds[p].metricRef,
                                     cmds[p].metricVal, 1)
       IN  cmds' = [cmds EXCEPT
                      ![p].pc = IF \/ ~Contains(cmds[p].metricRef, <<Dot>>)
                                   \/ Len(Split(cmds[p].metricRef)) # 3
                                   \/ updated.err # Nil
                                   THEN "exit" ELSE "save",
                      ![p].metricsData = updated.data]
    /\ UNCHANGED <<files, metricsConfig, leversConfig, scoringMethod,
                   metricsData, ret>>

\* configLoader.SaveMetricsData(metricsData)
CmdSave(p) ==
    /\ cmds[p].pc = "save"
    /\ files' = SaveMetricsData(files, cmds[p].metricsData)
    /\ cmds' = [cmds EXCEPT ![p].pc = "done"]
    /\ UNCHANGED <<metricsConfig, leversConfig, scoringMethod,
                   metricsData, ret>>

NextCommands ==
    \/ \E p \in DOMAIN cmds : CmdLoad(p)
    \/ \E p \in DOMAIN cmds : CmdUpdate(p)
    \/ \E p \in DOMAIN cmds : CmdSave(p)

SpecCommands == InitCommands /\ [][NextCommands]_vars

----------------------------------------------------------------------------
(* Claims about the data files *)

Holds(metrics, reference, value) ==
    \E i \in 1..Len(metrics) :
        metrics[i].Reference = reference /\ metrics[i].Value = value

\* C25: when both update commands have finished, the persisted store (what
\* LoadMetricsData returns) holds the value of each under its reference,
\* whatever the interleaving of their steps.
C25_NoLostUpdate ==
    (DOMAIN cmds # {} /\ \A p \in DOMAIN cmds : cmds[p].pc = "done") =>
        \A p \in DOMAIN cmds :
            Holds(LoadMetricsData(files).data,
                  cmds[p].metricRef, cmds[p].metricVal)

\* C26: after a SaveMetricsData(d) the next LoadMetricsData succeeds and
\* returns every observation of d, with its reference and value, whatever
\* the SourceFile of the observations and whether d came from the metrics
\* directory or from the legacy file.
C26_SaveLoadRoundTrip ==
    [][\A p \in DOMAIN cmds :
          (cmds[p].pc = "save" /\ cmds'[p].pc = "done") =>
              /\ LoadMetricsData(files').err = Nil
              /\ \A i \in 1..Len(cmds[p].metricsData) :
                    Holds(LoadMetricsData(files').data,
                          cmds[p].metricsData[i].Reference,
                          cmds[p].metricsData[i].Value)]_vars

====
